---------------------------- MODULE Spec2Model ----------------------------
(***************************************************************************)
(* A model of YetAnotherCodeSearch: parser._Lexer with its query-mode and *)
(* result-mode state functions, parse_query, Search.args and               *)
(* parse_search_output (src/parser.py), the project settings               *)
(* (src/settings.py) and the window commands CindexCommand                 *)
(* (src/cindex.py) and CsearchCommand (src/csearch.py).                    *)
(*                                                                         *)
(* A Python string is a sequence of one-character strings; positions keep  *)
(* Python's 0-based numbering, so text[p] of the source is text[p + 1]     *)
(* here.  A token is the pair (tokType, value) of the source, written as   *)
(* the record [type, value].                                               *)
(***************************************************************************)
EXTENDS Integers, Sequences, FiniteSets, TLC

VARIABLES
    text,     \* the query string given to parse_query
    lex,      \* the _Lexer object: _start, _pos, _width, _tokens
    state,    \* the local `state` of _Lexer.run: the next state function
    pc,       \* where the call of parse_query (then Search.args) stands
    res,      \* the Search object parse_query builds
    it,       \* the iterator `tokens` of parse_query: tokens consumed so far
    steps,    \* history: one record per iteration of parse_query's loop
    argv,     \* what Search.args returned
    first,    \* history: the pattern of the query parsed before this one
    out,      \* the locals of parse_search_output and what was made of its result
    cindex,   \* the CindexCommand of the window, its thread and its project
    csearch   \* the CsearchCommand of the window, its thread and its project

vars == <<text, lex, state, pc, res, it, steps, argv, first, out,
          cindex, csearch>>

-----------------------------------------------------------------------------
(* Bounds of the input space. *)

\* Longest query made of arbitrary characters of Alphabet.
MaxLen == 5

\* Most words in a query made of whole words of Words.
MaxWords == 3

\* The calls of state functions that one run() is followed for.
MaxCalls == 16

-----------------------------------------------------------------------------
(* Characters and strings. *)

\* parser.py:5.  The sentinel next() returns at the end of the text; the
\* inputs below never contain it.
_EOF == "EOF"

\* Python's None where a string or a list may stand (Search.file, the
\* argument vector not yet made).
None == <<"None">>

\* None as the state function a lexer state returns to end run()'s loop.
NoState == "None"

\* string.whitespace, less the vertical tab, which has no TLA+ escape.
whitespace == {" ", "\t", "\n", "\r", "\f"}

UpperLetters ==
    <<"A","B","C","D","E","F","G","H","I","J","K","L","M",
      "N","O","P","Q","R","S","T","U","V","W","X","Y","Z">>

LowerLetters ==
    <<"a","b","c","d","e","f","g","h","i","j","k","l","m",
      "n","o","p","q","r","s","t","u","v","w","x","y","z">>

\* str.lower() on one character.
lowerChar(c) ==
    IF \E i \in DOMAIN UpperLetters : UpperLetters[i] = c
    THEN LowerLetters[CHOOSE i \in DOMAIN UpperLetters : UpperLetters[i] = c]
    ELSE c

\* str.lower().
lower(s) == [i \in 1..Len(s) |-> lowerChar(s[i])]

\* The Python slice s[a:b] for 0 <= a.
Slice(s, a, b) == SubSeq(s, a + 1, b)

-----------------------------------------------------------------------------
(* _Lexer: the cursor operations.  Each takes the lexer object l and gives *)
(* the object after the call, with the returned value where there is one.  *)

\* A _Lexer before run(): no position, no token, nothing to undo.  calls is
\* history: how many times the loop of run() has called a state function.
NewLexer ==
    [start |-> 0, pos |-> 0, width |-> 0, tokens |-> <<>>, spans |-> <<>>,
     undone |-> TRUE, misuse |-> {}, calls |-> 0]

\* A run() that keeps the tokens of the run before.
reset_keep_tokens(l) ==
    [l EXCEPT !.start = 0, !.pos = 0, !.width = 0, !.undone = TRUE,
              !.calls = 0]

\* _Lexer.run, the four assignments before its loop
reset(l) ==
    [l EXCEPT !.start = 0, !.pos = 0, !.width = 0, !.tokens = <<>>,
              !.spans = <<>>, !.undone = TRUE, !.calls = 0]

\* _Lexer.curstr
curstr(l) == Slice(text, l.start, l.pos)

\* A lexer that always claims to hold pending characters.
hasstr_always(l) == TRUE

\* _Lexer.hasstr
hasstr(l) == l.pos > l.start

\* _Lexer.emitValue.  spans is history: the (_start, _pos) each token was
\* emitted at.
emitValue(l, tokType, value) ==
    [l EXCEPT !.tokens = Append(@, [type |-> tokType, value |-> value]),
              !.spans = Append(@, <<l.start, l.pos>>),
              !.start = l.pos]

\* _Lexer.emit
emit(l, tokType) == emitValue(l, tokType, curstr(l))

\* A lexer whose ignore() leaves the pending characters pending.
ignore_forgotten(l) == l

\* _Lexer.ignore
ignore(l) == [l EXCEPT !.start = l.pos]

\* _Lexer.next.  undone and misuse are history: whether the last cursor move
\* was a backup(), and which misuses of the cursor have happened.
next(l) ==
    IF l.pos >= Len(text)
    THEN [lex |-> [l EXCEPT !.width = 0, !.undone = FALSE], c |-> _EOF]
    ELSE [lex |-> [l EXCEPT !.width = 1, !.pos = l.pos + 1,
                            !.undone = FALSE,
                            !.misuse = IF l.pos + 1 > Len(text)
                                       THEN @ \cup {"past_end"} ELSE @],
          c |-> text[l.pos + 1]]

\* _Lexer.backup
backup(l) ==
    [l EXCEPT !.pos = l.pos - l.width,
              !.undone = TRUE,
              !.misuse = @ \cup (IF l.undone THEN {"backup_twice"} ELSE {})
                           \cup (IF l.pos - l.width < l.start
                                 THEN {"before_start"} ELSE {})]

\* _Lexer.peek
peek(l) ==
    LET r == next(l)
    IN  [lex |-> backup(r.lex), c |-> r.c]

\* _Lexer.accept
accept(l, chars) ==
    LET r == next(l)
    IN  IF r.c \in chars
        THEN [lex |-> r.lex, ok |-> TRUE]
        ELSE [lex |-> backup(r.lex), ok |-> FALSE]

\* _Lexer.acceptRun
RECURSIVE acceptRun(_, _)
acceptRun(l, chars) ==
    LET r == next(l)
    IN  IF r.c \in chars THEN acceptRun(r.lex, chars) ELSE backup(r.lex)

\* _Lexer.acceptRunIgnoring
RECURSIVE acceptRunIgnoring(_, _)
acceptRunIgnoring(l, chars) ==
    LET r == next(l)
    IN  IF r.c = _EOF \/ r.c \in chars
        THEN backup(r.lex)
        ELSE acceptRunIgnoring(r.lex, chars)

-----------------------------------------------------------------------------
(* The query-mode state functions.  Each gives the lexer object after the  *)
(* call and the state function it returns.                                 *)

\* Every word before a colon taken as a flag.
IsFlagWord_any(s) == TRUE

\* A test that takes every word of one letter for a flag as well.
IsFlagWord_letter(s) ==
    Len(s) = 1 \/ lower(s) \in {<<"f","i","l","e">>, <<"c","a","s","e">>}

\* parser.py:30, the words that make a colon end a flag.
IsFlagWord(s) == lower(s) \in {<<"f","i","l","e">>, <<"c","a","s","e">>}

\* The `while True` loop of _search_text_state, from one iteration on.
RECURSIVE _search_text_loop(_)
_search_text_loop(l) ==
    LET l1 == acceptRunIgnoring(l, whitespace \cup {"\\", ":"})
        p  == peek(l1)
    IN  IF p.c = ":"
        THEN IF IsFlagWord(curstr(p.lex))
             THEN [lex |-> ignore(next(emit(p.lex, "flag")).lex),
                   state |-> "_search_text_state"]
             ELSE _search_text_loop(next(p.lex).lex)
        ELSE LET a == accept(p.lex, {"\\"})
             IN  IF a.ok
                 THEN _search_text_loop(next(a.lex).lex)
                 ELSE [lex |-> emit(a.lex, "text"),
                       state |-> "_search_text_state"]

_search_text_state(l) ==
    LET r == next(ignore(acceptRun(l, whitespace)))
    IN  IF r.c = _EOF THEN [lex |-> r.lex, state |-> NoState]
        ELSE IF r.c = "\"" THEN [lex |-> r.lex, state |-> "_search_quote_state"]
        ELSE _search_text_loop(r.lex)

\* The quote state that emits what it has at the end of the input, no
\* closing quote added (query_parser.py:44-62).
RECURSIVE _search_quote_state_no_close(_)
_search_quote_state_no_close(l) ==
    LET r == next(acceptRunIgnoring(l, {"\\", "\""}))
    IN  IF r.c = "\\" THEN _search_quote_state_no_close(next(r.lex).lex)
        ELSE [lex |-> emit(r.lex, "quote"), state |-> "_search_text_state"]

\* A quote state that, at the end of the input with no closing quote, emits
\* nothing and asks to be called again.
RECURSIVE _search_quote_state_again(_)
_search_quote_state_again(l) ==
    LET r == next(acceptRunIgnoring(l, {"\\", "\""}))
    IN  IF r.c = "\\" THEN _search_quote_state_again(next(r.lex).lex)
        ELSE IF r.c = "\""
        THEN [lex |-> emit(r.lex, "quote"), state |-> "_search_text_state"]
        ELSE [lex |-> r.lex, state |-> "_search_quote_state"]

\* _search_quote_state
RECURSIVE _search_quote_state(_)
_search_quote_state(l) ==
    LET r == next(acceptRunIgnoring(l, {"\\", "\""}))
    IN  IF r.c = "\\" THEN _search_quote_state(next(r.lex).lex)
        ELSE IF r.c = "\""
        THEN [lex |-> emit(r.lex, "quote"), state |-> "_search_text_state"]
        ELSE [lex |-> emitValue(r.lex, "quote", curstr(r.lex) \o <<"\"">>),
              state |-> "_search_text_state"]

-----------------------------------------------------------------------------
(* Search and parse_query. *)

\* Search.__init__ with its defaults
Search == [query |-> <<>>, file |-> None, case |-> TRUE]

\* The quote token appended as it is (query_parser.py:246-247).
QuoteTerm_unstripped(tokValue) == tokValue

\* parser.py:361, the term a quote token gives: tokValue[1:-1]
QuoteTerm(tokValue) == Slice(tokValue, 1, Len(tokValue) - 1)

\* The `case` flag with the `else` branch of parser.py:368-369 left out.
CaseFlag_keep(r, value) ==
    IF lower(value) = <<"n","o">> THEN [r EXCEPT !.case = FALSE] ELSE r

\* The `case` flag with the value compared as typed, not lowered.
CaseFlag_exact(r, value) ==
    IF value = <<"n","o">>
    THEN [r EXCEPT !.case = FALSE]
    ELSE [r EXCEPT !.case = TRUE]

\* parser.py:365-369, the `case` flag
CaseFlag(r, value) ==
    IF lower(value) = <<"n","o">>
    THEN [r EXCEPT !.case = FALSE]
    ELSE [r EXCEPT !.case = TRUE]

\* The `file` flag without the test for * (query_parser.py:256-257).
FileFlag_always(r, value) == [r EXCEPT !.file = value]

\* parser.py:370-372, the `file` flag
FileFlag(r, value) ==
    IF value # <<"*">> THEN [r EXCEPT !.file = value] ELSE r

\* parser.py:362-374, a flag token whose value token is there
ParseFlag(r, tokValue, value) ==
    LET flag == lower(tokValue)
    IN  IF flag = <<"c","a","s","e">>
        THEN [res |-> CaseFlag(r, value), pc |-> "parse"]
        ELSE IF flag = <<"f","i","l","e">>
        THEN [res |-> FileFlag(r, value), pc |-> "parse"]
        ELSE [res |-> r, pc |-> "raised"]

\* One iteration of the `while True` of parse_query, with i tokens of toks
\* already taken from the iterator.  next(tokens) raising StopIteration, in
\* either place, leaves the loop through `except StopIteration: pass`.
parse_query_loop(r, toks, i) ==
    IF i >= Len(toks) THEN [res |-> r, it |-> i, pc |-> "returned"]
    ELSE LET tok == toks[i + 1]
         IN  IF tok.type = "text"
             THEN [res |-> [r EXCEPT !.query = Append(@, tok.value)],
                   it |-> i + 1, pc |-> "parse"]
             ELSE IF tok.type = "quote"
             THEN [res |-> [r EXCEPT !.query = Append(@, QuoteTerm(tok.value))],
                   it |-> i + 1, pc |-> "parse"]
             ELSE IF tok.type = "flag"
             THEN IF i + 1 >= Len(toks)
                  THEN [res |-> r, it |-> i + 1, pc |-> "returned"]
                  ELSE LET f == ParseFlag(r, tok.value, toks[i + 2].value)
                       IN  [res |-> f.res, it |-> i + 2, pc |-> f.pc]
             ELSE [res |-> r, it |-> i + 1, pc |-> "raised"]

\* The terms joined with a space where the bar should be.
RECURSIVE join_spaced(_)
join_spaced(q) ==
    IF q = <<>> THEN <<>>
    ELSE IF Len(q) = 1 THEN q[1]
    ELSE q[1] \o <<" ">> \o join_spaced(Tail(q))

\* '|'.join(query)
RECURSIVE join(_)
join(q) ==
    IF q = <<>> THEN <<>>
    ELSE IF Len(q) = 1 THEN q[1]
    ELSE q[1] \o <<"|">> \o join(Tail(q))

\* A pattern that is parenthesised whatever the number of terms.
query_re_always_wrapped(r) == <<"(">> \o join(r.query) \o <<")">>

\* Search.query_re
query_re(r) ==
    IF Len(r.query) = 1 THEN r.query[1]
    ELSE <<"(">> \o join(r.query) \o <<")">>

\* A Python string or None taken as a condition.
Truthy(s) == s # None /\ s # <<>>

\* A Search that is always taken to have a query.
NoQuery_never(r) == FALSE

\* parser.py:299, `not self.query`
NoQuery(r) == r.query = <<>>

\* An argument vector with the case flag put before the file filter.
args_case_first(r) ==
    (IF ~r.case THEN << <<"-","i">> >> ELSE <<>>)
    \o (IF Truthy(r.file) THEN << <<"-","f">>, r.file >> ELSE <<>>)
    \o << query_re(r) >>

\* Search.args, for a Search with a query
args(r) ==
    (IF Truthy(r.file) THEN << <<"-","f">>, r.file >> ELSE <<>>)
    \o (IF ~r.case THEN << <<"-","i">> >> ELSE <<>>)
    \o << query_re(r) >>

-----------------------------------------------------------------------------
(* The queries the model is run on. *)

\* The characters that steer the lexer, and one that does not.
Alphabet == {"a", " ", "\"", "\\", ":"}

\* Every string over Alphabet of at most MaxLen characters.
CharTexts == UNION {[1..n -> Alphabet] : n \in 0..MaxLen}

\* Whole words: terms, flags with and without a value, in both cases.
Words ==
    { <<"a">>,
      <<"\"","a","\"">>,
      <<"f","i","l","e",":","a">>,
      <<"f","i","l","e",":","*">>,
      <<"F","i","l","e",":","b">>,
      <<"c","a","s","e",":","n","o">>,
      <<"C","A","S","E",":","N","o">>,
      <<"c","a","s","e",":","a">>,
      <<"f","i","l","e",":">>,
      <<"c","a","s","e",":">> }

RECURSIVE JoinWords(_)
JoinWords(ws) ==
    IF ws = <<>> THEN <<>>
    ELSE IF Len(ws) = 1 THEN ws[1]
    ELSE ws[1] \o <<" ">> \o JoinWords(Tail(ws))

\* Up to MaxWords words, one space between them.
WordTexts == {JoinWords(ws) : ws \in UNION {[1..n -> Words] : n \in 0..MaxWords}}

\* The queries of src/tests/test_parser.py.
T_simple ==
    <<"s","o","m","e","V","a","r","i","a","b","l","e","N","a","m","e">>

T_quoted ==
    <<"\"","H","e","l","l","o",","," ","\\","\"","W","o","r","l","d","\\","\"",
      "\""," ","p","r","i","n","t","f">>

T_unclosed ==
    <<"\"","H","e","l","l","o">>

T_with_file ==
    <<"\"","H","e","l","l","o",","," ","W","o","r","l","d","\""," ",
      "f","i","l","e",":",".","*","p","y","$">>

T_case ==
    <<"s","o","m","e","V","a","r","i","a","b","l","e","N","a","m","e"," ",
      "c","a","s","e",":","n","o">>

T_regex_space ==
    <<"n","a","m","e","\\"," ","*","=","\\"," ","*","f","o","o">>

T_keyword ==
    <<"f","o","o",":","b","a","r">>

\* The query that gives the Search of test_args_with_multiple_queries.
T_hello_world ==
    <<"h","e","l","l","o"," ","w","o","r","l","d">>

TestTexts ==
    {T_simple, T_quoted, T_unclosed, T_with_file, T_case, T_regex_space,
     T_keyword, T_hello_world}

QueryTexts == CharTexts \cup WordTexts \cup TestTexts

-----------------------------------------------------------------------------
(* The state machine: parse_query(text), then args() on what it returned.  *)

\* The locals of parse_search_output before it is called.
NoOutput ==
    [res |-> <<>>, cur_filename |-> None, cur_matches |-> <<>>, it |-> 0,
     shown |-> None]

\* The window commands where only the parser is followed.
NoCommand == [_is_running |-> FALSE]

Init ==
    /\ text \in QueryTexts
    /\ lex = NewLexer
    /\ state = NoState
    /\ pc = "call"
    /\ res = Search
    /\ it = 0
    /\ steps = <<>>
    /\ argv = None
    /\ first = <<>>
    /\ out = NoOutput
    /\ cindex = NoCommand
    /\ csearch = NoCommand

\* parse_query up to the loop of _Lexer.run: res = Search(), the lexer is
\* made and run() resets it.
Run ==
    /\ pc = "call"
    /\ res' = Search
    /\ lex' = reset(lex)
    /\ state' = "_search_text_state"
    /\ pc' = "lex"
    /\ UNCHANGED <<text, it, steps, argv, first, out, cindex, csearch>>

\* `state = state(self)` with state = _search_text_state
RunTextState ==
    /\ pc = "lex"
    /\ state = "_search_text_state"
    /\ lex.calls < MaxCalls
    /\ LET r == _search_text_state(lex)
       IN  lex' = [r.lex EXCEPT !.calls = @ + 1] /\ state' = r.state
    /\ UNCHANGED <<text, pc, res, it, steps, argv, first, out, cindex, csearch>>

\* `state = state(self)` with state = _search_quote_state
RunQuoteState ==
    /\ pc = "lex"
    /\ state = "_search_quote_state"
    /\ lex.calls < MaxCalls
    /\ LET r == _search_quote_state(lex)
       IN  lex' = [r.lex EXCEPT !.calls = @ + 1] /\ state' = r.state
    /\ UNCHANGED <<text, pc, res, it, steps, argv, first, out, cindex, csearch>>

\* run() returns self._tokens; parse_query makes the iterator.
RunReturn ==
    /\ pc = "lex"
    /\ state = NoState
    /\ pc' = "parse"
    /\ it' = 0
    /\ UNCHANGED <<text, lex, state, res, steps, argv, first, out, cindex, csearch>>

\* One iteration of the loop of parse_query.
ParseQueryLoop ==
    /\ pc = "parse"
    /\ LET r == parse_query_loop(res, lex.tokens, it)
       IN  /\ res' = r.res
           /\ it' = r.it
           /\ pc' = r.pc
           /\ steps' = IF r.it > it
                       THEN Append(steps, [at |-> it, n |-> r.it - it,
                                           before |-> res, after |-> r.res])
                       ELSE steps
    /\ UNCHANGED <<text, lex, state, argv, first, out, cindex, csearch>>

\* Search.args on the Search parse_query returned.
SearchArgs ==
    /\ pc = "returned"
    /\ IF NoQuery(res)
       THEN pc' = "args_raised" /\ argv' = None
       ELSE pc' = "args_returned" /\ argv' = args(res)
    /\ UNCHANGED <<text, lex, state, res, it, steps, first, out, cindex, csearch>>

Next ==
    \/ Run
    \/ RunTextState
    \/ RunQuoteState
    \/ RunReturn
    \/ ParseQueryLoop
    \/ SearchArgs

Spec == Init /\ [][Next]_vars

\* parse_query called on the pattern that args() gave for the query parsed
\* before: the pattern becomes the text, and what the first query was is
\* kept in `first`.
Reparse ==
    /\ pc = "args_returned"
    /\ first = <<>>
    /\ first' = <<[text |-> text,
                   pattern |-> argv[Len(argv)],
                   types |-> {lex.tokens[k].type : k \in 1..Len(lex.tokens)}]>>
    /\ text' = argv[Len(argv)]
    /\ pc' = "call"
    /\ argv' = None
    /\ steps' = <<>>
    /\ it' = 0
    /\ UNCHANGED <<lex, state, res, out, cindex, csearch>>

NextRoundTrip ==
    \/ Next
    \/ Reparse

SpecRoundTrip == Init /\ [][NextRoundTrip]_vars

-----------------------------------------------------------------------------
(* What the properties below read off a state. *)

\* parse_query has returned its Search.
Returned == pc \in {"returned", "args_raised", "args_returned"}

\* The characters of the query that token k was lexed from.
Typed(k) == Slice(text, lex.spans[k][1], lex.spans[k][2])

\* The token at the head of iteration st of parse_query's loop, and the
\* token it took as a flag's value.
HeadTok(st) == lex.tokens[st.at + 1]

ValueTok(st) == lex.tokens[st.at + 2]

IsFlagStep(st, name) ==
    /\ HeadTok(st).type = "flag"
    /\ st.n = 2
    /\ lower(HeadTok(st).value) = name

\* Quoting as the query language defines it, read from the text alone:
\* the position of the first double quote at or after position i that no
\* backslash escapes, -1 when there is none.
RECURSIVE ClosePos(_)
ClosePos(i) ==
    IF i >= Len(text) THEN -1
    ELSE IF text[i + 1] = "\\" THEN ClosePos(i + 2)
    ELSE IF text[i + 1] = "\"" THEN i
    ELSE ClosePos(i + 1)

\* The quoted phrase opened at position s, without its delimiters.
Inner(s) ==
    IF ClosePos(s + 1) = -1
    THEN Slice(text, s + 1, Len(text))
    ELSE Slice(text, s + 1, ClosePos(s + 1))

\* A string with every backslash-escaped double quote replaced by the quote.
RECURSIVE Unescape(_)
Unescape(s) ==
    IF s = <<>> THEN <<>>
    ELSE IF Len(s) >= 2 /\ s[1] = "\\" /\ s[2] = "\""
    THEN <<"\"">> \o Unescape(SubSeq(s, 3, Len(s)))
    ELSE <<s[1]>> \o Unescape(Tail(s))

\* Token k is taken by parse_query as a flag (not as the value of the flag
\* before it).
RECURSIVE IsFlagAt(_)
IsFlagAt(k) ==
    /\ k >= 1
    /\ lex.tokens[k].type = "flag"
    /\ ~IsFlagAt(k - 1)

\* The flags named `name` that have a value token.
FlagsNamed(name) ==
    {k \in 1..(Len(lex.tokens) - 1) :
        IsFlagAt(k) /\ lower(lex.tokens[k].value) = name}

Max(S) == CHOOSE x \in S : \A y \in S : y <= x

W_file == <<"f","i","l","e">>

W_case == <<"c","a","s","e">>

W_no == <<"n","o">>

W_star == <<"*">>

E_hello_world_raw ==
    <<"H","e","l","l","o",","," ","\\","\"","W","o","r","l","d","\\","\"">>

E_hello_world_unescaped ==
    <<"H","e","l","l","o",","," ","\"","W","o","r","l","d","\"">>

E_hello_world == <<"H","e","l","l","o",","," ","W","o","r","l","d">>

E_printf == <<"p","r","i","n","t","f">>

E_py == <<".","*","p","y","$">>

-----------------------------------------------------------------------------
(* The claims about parse_query, each against the states of Spec. *)

\* The iterations of parse_query's loop that appended a quoted phrase.
QuoteSteps == {k \in 1..Len(steps) : HeadTok(steps[k]).type = "quote"}

\* The term iteration k appended.
Appended(k) == steps[k].after.query[Len(steps[k].after.query)]

C2_QuoteAsTyped ==
    /\ \A k \in QuoteSteps : Appended(k) = Typed(steps[k].at + 1)
    /\ (text = T_unclosed /\ Returned) => res.query = <<T_unclosed>>

\* C3, as stated: parse_query never returns a Search after a flag token
\* that no value token follows.
C3_TrailingFlagFails ==
    Returned =>
        \A k \in 1..Len(steps) :
            ~(HeadTok(steps[k]).type = "flag" /\ steps[k].n = 1)

\* Position i of the text holds a backslash that escapes, in a token lexed
\* from position s on: a backslash that no escaping backslash precedes.
RECURSIVE Escapes(_, _)
Escapes(s, i) ==
    /\ text[i + 1] = "\\"
    /\ (i = s \/ ~Escapes(s, i - 1))

\* C4, as stated: in every text token, an escaping backslash that a
\* character follows has that character in the same token, the first
\* character of the token included.
C4_BackslashEscapes ==
    \A k \in 1..Len(lex.tokens) :
        lex.tokens[k].type = "text" =>
            \A i \in lex.spans[k][1]..(lex.spans[k][2] - 1) :
                (Escapes(lex.spans[k][1], i) /\ i + 1 < Len(text))
                    => i + 1 < lex.spans[k][2]

\* C5, as stated: right after a `file` flag whose value is * the Search has
\* no file filter, and when that flag is the last `file` flag of the query
\* the argument vector has no -f.
C5_StarClearsFilter ==
    /\ \A k \in 1..Len(steps) :
          (IsFlagStep(steps[k], W_file) /\ ValueTok(steps[k]).value = W_star)
              => steps[k].after.file = None
    /\ (/\ pc = "args_returned"
        /\ FlagsNamed(W_file) # {}
        /\ lex.tokens[Max(FlagsNamed(W_file)) + 1].value = W_star)
          => argv[1] # <<"-","f">>

\* The iterations of parse_query's loop that took a `case` flag and its
\* value.
CaseSteps == {k \in 1..Len(steps) : IsFlagStep(steps[k], W_case)}

\* C6, as stated: case_sensitive becomes false only through a `case` flag
\* whose value is `no`, and a `case` flag with another value leaves it as
\* it was.
C6_OtherValueKeeps ==
    \A k \in 1..Len(steps) :
        /\ (steps[k].before.case /\ ~steps[k].after.case)
              => (k \in CaseSteps /\ lower(ValueTok(steps[k]).value) = W_no)
        /\ (k \in CaseSteps /\ lower(ValueTok(steps[k]).value) # W_no)
              => steps[k].after.case = steps[k].before.case

\* C6, amended: case_sensitive becomes false only through a `case` flag
\* whose value is `no`, and a `case` flag with another value sets it to
\* true, undoing an earlier case:no; nothing but a `case` flag changes it.
C6_OtherValueResets ==
    \A k \in 1..Len(steps) :
        /\ (steps[k].before.case /\ ~steps[k].after.case)
              => (k \in CaseSteps /\ lower(ValueTok(steps[k]).value) = W_no)
        /\ (k \in CaseSteps /\ lower(ValueTok(steps[k]).value) # W_no)
              => steps[k].after.case
        /\ k \notin CaseSteps
              => steps[k].after.case = steps[k].before.case

\* C6, the case: a `case` flag with a value other than `no` met while
\* case_sensitive is false.
C6_Witness ==
    \E k \in CaseSteps :
        /\ ~steps[k].before.case
        /\ lower(ValueTok(steps[k]).value) # W_no
        /\ steps[k].after.case

\* C7: once parse_query has returned, case_sensitive is true when the query
\* has no `case` flag with a value, and otherwise is false exactly when the
\* value of the last such flag is `no`, names and values compared without
\* regard to case.
C7_LastCaseFlagDecides ==
    Returned =>
        res.case =
            (\/ FlagsNamed(W_case) = {}
             \/ lower(lex.tokens[Max(FlagsNamed(W_case)) + 1].value) # W_no)

\* C7, the case: two `case` flags that disagree, the last one written in
\* capitals and deciding.
C7_Witness ==
    /\ pc = "returned"
    /\ Cardinality(FlagsNamed(W_case)) = 2
    /\ lex.tokens[Max(FlagsNamed(W_case))].value = <<"C","A","S","E">>
    /\ lex.tokens[Max(FlagsNamed(W_case)) + 1].value = <<"N","o">>
    /\ \E k \in CaseSteps : steps[k].after.case
    /\ ~res.case

\* The tokens parse_query appends to terms: those that are neither a flag
\* nor the value of one.
TermTokens ==
    {k \in 1..Len(lex.tokens) : ~IsFlagAt(k) /\ ~IsFlagAt(k - 1)}

\* C8, as stated: a `file` flag takes exactly the next token as its value,
\* the text of that token becomes file_filter as it stands and is not
\* appended to terms; every token that is neither a flag nor a flag's value
\* is appended to terms.
C8_FileValueVerbatim ==
    /\ \A k \in 1..Len(steps) :
          /\ IsFlagStep(steps[k], W_file)
                => /\ steps[k].after.file = ValueTok(steps[k]).value
                   /\ steps[k].after.query = steps[k].before.query
          /\ HeadTok(steps[k]).type # "flag"
                => /\ steps[k].n = 1
                   /\ Len(steps[k].after.query) = Len(steps[k].before.query) + 1
    /\ Returned => Len(res.query) = Cardinality(TermTokens)
    /\ (text = T_with_file /\ Returned)
          => (res.query = <<E_hello_world>> /\ res.file = E_py)

\* C8, amended: a `file` flag takes exactly the next token as its value;
\* the text of that token becomes file_filter as it stands unless it is *,
\* and then file_filter stays what it was; it is not appended to terms;
\* every token that is neither a flag nor a flag's value is appended to
\* terms.
C8_FileValueUnlessStar ==
    /\ \A k \in 1..Len(steps) :
          /\ IsFlagStep(steps[k], W_file)
                => /\ steps[k].after.file =
                         IF ValueTok(steps[k]).value = W_star
                         THEN steps[k].before.file
                         ELSE ValueTok(steps[k]).value
                   /\ steps[k].after.query = steps[k].before.query
          /\ HeadTok(steps[k]).type # "flag"
                => /\ steps[k].n = 1
                   /\ Len(steps[k].after.query) = Len(steps[k].before.query) + 1
    /\ Returned => Len(res.query) = Cardinality(TermTokens)
    /\ (text = T_with_file /\ Returned)
          => (res.query = <<E_hello_world>> /\ res.file = E_py)

\* C8, the case: a query with a term, a `file` flag with a value and a
\* `file` flag whose value is *, parsed.
C8_Witness ==
    /\ pc = "returned"
    /\ Len(res.query) = 1
    /\ \E j, k \in 1..Len(steps) :
          /\ j < k
          /\ IsFlagStep(steps[j], W_file)
          /\ steps[j].after.file = ValueTok(steps[j]).value
          /\ IsFlagStep(steps[k], W_file)
          /\ ValueTok(steps[k]).value = W_star
          /\ steps[k].after.file = steps[j].after.file

\* C9: a flag token is emitted only for `file` or `case` (in any case)
\* standing from the token's start up to a colon; a colon kept inside a
\* text token is never preceded, from the token's start, by exactly one of
\* those words; foo:bar parses to the single term foo:bar, no flag set and
\* no error.
C9_FlagOnlyFileOrCase ==
    /\ \A k \in 1..Len(lex.tokens) :
          /\ lex.tokens[k].type = "flag"
                => /\ lower(Typed(k)) \in {W_file, W_case}
                   /\ lex.spans[k][2] < Len(text)
                   /\ text[lex.spans[k][2] + 1] = ":"
          /\ lex.tokens[k].type = "text"
                => \A i \in lex.spans[k][1]..(lex.spans[k][2] - 1) :
                      text[i + 1] = ":"
                          => lower(Slice(text, lex.spans[k][1], i))
                                \notin {W_file, W_case}
    /\ (text = T_keyword /\ pc # "call")
          => /\ pc # "raised"
             /\ \A k \in 1..Len(lex.tokens) : lex.tokens[k].type = "text"
             /\ Returned => res = [query |-> <<T_keyword>>, file |-> None,
                                   case |-> TRUE]

\* C9, the case: foo:bar parsed, its colon inside the one text token.
C9_Witness ==
    /\ pc = "returned"
    /\ text = T_keyword
    /\ lex.spans = <<<<0, 7>>>>
    /\ text[4] = ":"
    /\ res.query = <<T_keyword>>

\* C10: a quote token lexed from a phrase that has no closing quote spans
\* the text from the opening quote to the end of the input, has that text
\* plus one double quote as its value and is the last token; parse_query
\* raises nothing.
C10_UnterminatedQuoteAccepted ==
    /\ \A k \in 1..Len(lex.tokens) :
          (lex.tokens[k].type = "quote" /\ ClosePos(lex.spans[k][1] + 1) = -1)
              => /\ text[lex.spans[k][1] + 1] = "\""
                 /\ lex.spans[k][2] = Len(text)
                 /\ lex.tokens[k].value = Typed(k) \o <<"\"">>
                 /\ k = Len(lex.tokens)
                 /\ state \in {"_search_text_state", NoState}
    /\ pc # "raised"
    /\ (text = T_unclosed /\ pc \notin {"call", "lex"})
          => lex.tokens = <<[type |-> "quote",
                             value |-> T_unclosed \o <<"\"">>]>>

\* C10, the case: "Hello with no closing quote, parsed to the end.
C10_Witness ==
    /\ pc = "returned"
    /\ text = T_unclosed
    /\ Len(lex.tokens) = 1
    /\ ClosePos(1) = -1
    /\ Len(res.query) = 1

-----------------------------------------------------------------------------
(* Plain words, and the argument vector. *)

\* The words of a string: its maximal runs of characters that are not
\* whitespace, left to right.  `cur` is the run being read.
RECURSIVE WordsFrom(_, _)
WordsFrom(s, cur) ==
    IF s = <<>> THEN (IF cur = <<>> THEN <<>> ELSE <<cur>>)
    ELSE IF s[1] \in whitespace
    THEN (IF cur = <<>> THEN <<>> ELSE <<cur>>) \o WordsFrom(Tail(s), <<>>)
    ELSE WordsFrom(Tail(s), Append(cur, s[1]))

WordsOf(s) == WordsFrom(s, <<>>)

\* The query has no double quote, backslash or colon.
PlainText == \A i \in 1..Len(text) : text[i] \notin {"\"", "\\", ":"}

\* C11: for a query made only of words and whitespace, parse_query raises
\* nothing and returns the words in order as the terms, no file filter and
\* case sensitivity on.
C11_PlainWords ==
    PlainText =>
        /\ pc # "raised"
        /\ Returned => res = [query |-> WordsOf(text), file |-> None,
                              case |-> TRUE]

\* C11, the case: two words with whitespace before, between (twice) and
\* none after.
C11_Witness ==
    /\ pc = "returned"
    /\ text = <<" ", "a", " ", " ", "a">>
    /\ res.query = << <<"a">>, <<"a">> >>

\* The argument vector args() returned.
ArgsDone == pc = "args_returned"

\* C13: for a Search with a term, args() returns `-f`, file first when
\* there is a file filter and not otherwise, then `-i` when the search is
\* case-insensitive and not otherwise, then the one pattern.
C13_ArgsShape ==
    /\ (pc = "args_raised") => res.query = <<>>
    /\ ArgsDone =>
          LET f == res.file # None
              i == ~res.case
              n == Len(argv)
          IN  /\ n = 1 + (IF f THEN 2 ELSE 0) + (IF i THEN 1 ELSE 0)
              /\ f => (argv[1] = <<"-","f">> /\ argv[2] = res.file)
              /\ i => argv[n - 1] = <<"-","i">>
              /\ argv[n] = query_re(res)

\* C13, the case: a file filter and a case-insensitive search together.
C13_Witness ==
    /\ ArgsDone
    /\ res.file # None
    /\ ~res.case
    /\ Len(argv) = 4

\* Where term k starts in the alternation of q: after the opening
\* parenthesis, the terms before it and their bars.
RECURSIVE Off(_, _)
Off(q, k) ==
    IF k = 1 THEN 1 ELSE Off(q, k - 1) + Len(q[k - 1]) + 1

E_alternation == <<"(","h","e","l","l","o","|","w","o","r","l","d",")">>

\* C14: the last argument is the term itself when there is one term, and
\* otherwise an opening parenthesis, the terms in order with one bar between
\* neighbours, and a closing parenthesis; [hello, world] gives
\* (hello|world).
C14_PatternForm ==
    ArgsDone =>
        LET q == res.query
            n == Len(q)
            P == argv[Len(argv)]
        IN  /\ n = 1 => P = q[1]
            /\ n > 1 =>
                  /\ Len(P) = Off(q, n) + Len(q[n]) + 1
                  /\ P[1] = "("
                  /\ P[Len(P)] = ")"
                  /\ \A k \in 1..n :
                        SubSeq(P, Off(q, k) + 1, Off(q, k) + Len(q[k])) = q[k]
                  /\ \A k \in 1..(n - 1) : P[Off(q, k) + Len(q[k]) + 1] = "|"
            /\ text = T_hello_world => P = E_alternation

\* C14, the case: the pattern of the two terms hello and world.
C14_Witness ==
    /\ ArgsDone
    /\ text = T_hello_world
    /\ Len(res.query) = 2
    /\ argv = <<E_alternation>>

\* The query is empty or all whitespace.
BlankText == \A i \in 1..Len(text) : text[i] \in whitespace

\* C15: args() raises and returns nothing exactly when the Search has no
\* term, whatever its file filter and case; the Search of an empty or
\* all-whitespace query has no term.
C15_EmptyQueryRaises ==
    /\ pc \in {"args_raised", "args_returned"} =>
          /\ (res.query = <<>>) <=> (pc = "args_raised")
          /\ (pc = "args_raised") => argv = None
    /\ (BlankText /\ Returned) => res.query = <<>>
    /\ BlankText => pc # "args_returned"

\* C15, the case: no term, with a file filter set and case off.
C15_Witness ==
    /\ pc = "args_raised"
    /\ res.query = <<>>
    /\ res.file # None
    /\ ~res.case

-----------------------------------------------------------------------------
(* The pattern, parsed again. *)

\* The query now being parsed is the pattern of an earlier one.
Second == first # <<>>

\* C12 as stated: when a query with no flag gave a pattern, parsing that
\* pattern and taking its pattern gives the same string.
C12_RoundTripNoFlags ==
    (Second /\ "flag" \notin first[1].types) =>
        /\ pc \notin {"raised", "args_raised"}
        /\ ArgsDone => argv[Len(argv)] = first[1].pattern

\* The first query had only text tokens and no backslash.
FirstWasWords ==
    /\ first[1].types \subseteq {"text"}
    /\ \A i \in 1..Len(first[1].text) : first[1].text[i] # "\\"

\* C12: when a query with no flag, no quoted phrase and no backslash gave a
\* pattern, parsing that pattern raises nothing and gives the same pattern.
C12_RoundTripWords ==
    (Second /\ FirstWasWords) =>
        /\ pc \notin {"raised", "args_raised"}
        /\ ArgsDone => argv[Len(argv)] = first[1].pattern

\* C12, the case: the pattern of two words came back from its own parse.
C12_Witness ==
    /\ ArgsDone
    /\ Second
    /\ first[1].types = {"text"}
    /\ Len(WordsOf(first[1].text)) = 2
    /\ argv[Len(argv)] = first[1].pattern

-----------------------------------------------------------------------------
(* The result parser: the output-mode state functions.  As above, each      *)
(* gives the lexer object after the call and the state function it returns, *)
(* or Raised when it called _Lexer.error.                                   *)

\* _OutputToken
FileName == 0
LineNumber == 1
Line == 2

\* string.digits
digits == <<"0","1","2","3","4","5","6","7","8","9">>

DigitChars == {digits[i] : i \in 1..Len(digits)}

\* _Lexer.error: the call raised _LexerException.
Raised == "_LexerException"

\* A start state that calls backup() once more after its peek().
_output_start_state_backup(l) ==
    IF peek(l).c = _EOF
    THEN [lex |-> backup(peek(l).lex), state |-> NoState]
    ELSE [lex |-> backup(peek(l).lex), state |-> "_output_filename_state"]

\* _output_start_state
_output_start_state(l) ==
    IF peek(l).c = _EOF
    THEN [lex |-> peek(l).lex, state |-> NoState]
    ELSE [lex |-> peek(l).lex, state |-> "_output_filename_state"]

\* _output_line_state
_output_line_state(l) ==
    LET l1 == acceptRunIgnoring(l, {"\n"})
        r  == next(emit(l1, Line))
    IN  IF ~hasstr(l1) THEN [lex |-> l1, state |-> Raised]
        ELSE IF ~(r.c = "\n" \/ r.c = _EOF)
        THEN [lex |-> r.lex, state |-> Raised]
        ELSE [lex |-> ignore(r.lex), state |-> "_output_start_state"]

\* A line number state that takes an empty run of digits for a number.
_output_linenumber_state_empty(l) ==
    LET l1 == acceptRun(l, DigitChars)
        r  == next(emit(l1, LineNumber))
    IN  IF r.c # ":" THEN [lex |-> r.lex, state |-> Raised]
        ELSE [lex |-> ignore(r.lex), state |-> "_output_line_state"]

\* _output_linenumber_state
_output_linenumber_state(l) ==
    LET l1 == acceptRun(l, DigitChars)
        r  == next(emit(l1, LineNumber))
    IN  IF ~hasstr(l1) THEN [lex |-> l1, state |-> Raised]
        ELSE IF r.c # ":" THEN [lex |-> r.lex, state |-> Raised]
        ELSE [lex |-> ignore(r.lex), state |-> "_output_line_state"]

\* _output_filename_state, which calls _output_linenumber_state itself
_output_filename_state(l) ==
    LET l1 == acceptRunIgnoring(l, {":"})
        r  == next(emit(l1, FileName))
    IN  IF ~hasstr(l1) THEN [lex |-> l1, state |-> Raised]
        ELSE IF r.c # ":" THEN [lex |-> r.lex, state |-> Raised]
        ELSE _output_linenumber_state(ignore(r.lex))

\* int(), on a string of decimal digits
RECURSIVE int(_)
int(s) ==
    IF s = <<>> THEN 0
    ELSE 10 * int(SubSeq(s, 1, Len(s) - 1))
         + (CHOOSE d \in 0..9 : digits[d + 1] = s[Len(s)])

\* _line_parts, on the three tokens at positions i+1..i+3
_line_parts(toks, i) ==
    [filename |-> toks[i + 1].value,
     linenum |-> int(toks[i + 2].value),
     line |-> toks[i + 3].value]

\* FileResults.__init__: the two assertions
FileResults_assert(filename, matches) == matches # <<>> /\ filename # <<>>

\* FileResults(filename, matches)
FileResults(filename, matches) == [filename |-> filename, matches |-> matches]

\* str(), on a natural number
RECURSIVE str(_)
str(n) ==
    IF n < 10 THEN <<digits[n + 1]>>
    ELSE str(n \div 10) \o <<digits[(n % 10) + 1]>>

\* '{0: >5}'.format(s): s after the spaces that bring it to five characters
rjust5(s) ==
    [i \in 1..(IF Len(s) >= 5 THEN 0 ELSE 5 - Len(s)) |-> " "] \o s

\* line_tmpl.format(linenum, line)
line_tmpl(linenum, line) == rjust5(str(linenum)) \o <<":", " ">> \o line

\* int(math.log10(n)) for n >= 1 (exact while the float is, which it is for
\* every n the model reaches)
RECURSIVE int_log10(_)
int_log10(n) == IF n < 10 THEN 0 ELSE 1 + int_log10(n \div 10)

\* A gap row that is always a single dot wide.
gap_row_one_dot(prev_linenum) == rjust5(<<".">>)

\* '{0: >5}'.format('.' * num_digits)
gap_row(prev_linenum) ==
    rjust5([i \in 1..(int_log10(prev_linenum) + 1) |-> "."])

\* The loop of FileResults.__str__ from match k on: the rows it appends,
\* or raised when math.log10 is given 0 (ValueError).
RECURSIVE res_matches_loop(_, _)
res_matches_loop(matches, k) ==
    IF k > Len(matches) THEN [raised |-> FALSE, rows |-> <<>>]
    ELSE LET prev_linenum == matches[k - 1][1]
             linenum == matches[k][1]
             gap == prev_linenum + 1 # linenum
         IN  IF gap /\ prev_linenum <= 0
             THEN [raised |-> TRUE, rows |-> <<>>]
             ELSE LET rest == res_matches_loop(matches, k + 1)
                  IN  [raised |-> rest.raised,
                       rows |-> (IF gap THEN <<gap_row(prev_linenum)>>
                                 ELSE <<>>)
                                \o <<line_tmpl(linenum, matches[k][2])>>
                                \o rest.rows]

\* '\n'.join(res_matches)
RECURSIVE join_rows(_)
join_rows(rows) ==
    IF rows = <<>> THEN <<>>
    ELSE IF Len(rows) = 1 THEN rows[1]
    ELSE rows[1] \o <<"\n">> \o join_rows(Tail(rows))

\* FileResults.__str__: whether it raised, the rows of res_matches and the
\* string returned.
FileResults_str(f) ==
    LET r == res_matches_loop(f.matches, 2)
        rows == <<line_tmpl(f.matches[1][1], f.matches[1][2])>> \o r.rows
    IN  IF r.raised
        THEN [raised |-> TRUE, rows |-> <<>>, value |-> None]
        ELSE [raised |-> FALSE, rows |-> rows,
              value |-> f.filename \o <<":", "\n">> \o join_rows(rows)]

-----------------------------------------------------------------------------
(* The result texts the model is run on. *)

MaxOutLen == 5
MaxLines == 3

\* The characters that steer the output lexer, and one that does not.
OutAlphabet == {"a", ":", "0", "1", "\n"}

\* Every string over OutAlphabet of at most MaxOutLen characters.
OutCharTexts == UNION {[1..n -> OutAlphabet] : n \in 0..MaxOutLen}

\* Records as the search tool prints them, file:number:line, over two
\* files and line numbers of one and two digits.
OutNumbers == {<<"0">>, <<"1">>, <<"2">>, <<"1","0">>}

RecordLines ==
    {f \o <<":">> \o n \o <<":", "x">> : f \in {<<"a">>, <<"b">>},
                                         n \in OutNumbers}

\* Lines that are no record: a blank line, one with its first colon
\* missing, one with no content.
BadLines == {<<>>, <<"a","1",":","x">>, <<"a",":","1",":">>}

RECURSIVE JoinLines(_)
JoinLines(ls) ==
    IF ls = <<>> THEN <<>>
    ELSE IF Len(ls) = 1 THEN ls[1]
    ELSE ls[1] \o <<"\n">> \o JoinLines(Tail(ls))

\* Up to MaxLines lines, one newline between them.
LineTexts ==
    {JoinLines(ls) :
        ls \in UNION {[1..n -> RecordLines \cup BadLines] : n \in 0..MaxLines}}

\* The example in the docstring of parse_search_output.
T_docstring ==
    <<"a",".","t","x","t",":","1",":","T","o","o"," ","m","a","n","y"," ",
      "c","o","o","k","s","\n","a",".","t","x","t",":","2",":","T","O","O",
      " ","M","A","N","Y"," ","c","o","o","k","s","\n","b",".","t","x","t",
      ":","3","4",":","H","o","w"," ","t","o"," ","c","o","o","k">>

\* A record whose first colon is missing.
T_missing_colon ==
    <<"a",".","t","x","t","1",":","l","i","n","e">>

OutputTexts == OutCharTexts \cup LineTexts \cup {T_docstring, T_missing_colon}

-----------------------------------------------------------------------------
(* parse_search_output and the rendering of its result, step by step. *)

InitOutput ==
    /\ text \in OutputTexts
    /\ lex = NewLexer
    /\ state = NoState
    /\ pc = "out_call"
    /\ res = Search
    /\ it = 0
    /\ steps = <<>>
    /\ argv = None
    /\ first = <<>>
    /\ out = NoOutput
    /\ cindex = NoCommand
    /\ csearch = NoCommand

\* A comparison that finds every two filenames different.
SameFile_never(cur_filename, filename) == FALSE

\* parser.py:462, the filename of this record is the current one
SameFile(cur_filename, filename) == cur_filename = filename

\* A new current group that starts empty.
NewMatches_empty(linenum, line) == <<>>

\* parser.py:465, `cur_matches = [(linenum, line)]`
NewMatches(linenum, line) == << <<linenum, line>> >>

\* parse_search_output up to the loop of _Lexer.run: res = [], the lexer is
\* made and run() resets it.
OutRun ==
    /\ pc = "out_call"
    /\ out' = [out EXCEPT !.res = <<>>]
    /\ lex' = reset(lex)
    /\ state' = "_output_start_state"
    /\ pc' = "out_lex"
    /\ UNCHANGED <<text, res, it, steps, argv, first, cindex, csearch>>

\* `state = state(self)` with state = _output_start_state
OutStartState ==
    /\ pc = "out_lex"
    /\ state = "_output_start_state"
    /\ lex.calls < MaxCalls
    /\ LET r == _output_start_state(lex)
       IN  lex' = [r.lex EXCEPT !.calls = @ + 1] /\ state' = r.state
    /\ UNCHANGED <<text, pc, res, it, steps, argv, first, out, cindex, csearch>>

\* `state = state(self)` with state = _output_filename_state; an error
\* leaves run() and parse_search_output.
OutFilenameState ==
    /\ pc = "out_lex"
    /\ state = "_output_filename_state"
    /\ lex.calls < MaxCalls
    /\ LET r == _output_filename_state(lex)
       IN  /\ lex' = [r.lex EXCEPT !.calls = @ + 1]
           /\ state' = r.state
           /\ pc' = IF r.state = Raised THEN "out_raised" ELSE pc
    /\ UNCHANGED <<text, res, it, steps, argv, first, out, cindex, csearch>>

\* `state = state(self)` with state = _output_line_state
OutLineState ==
    /\ pc = "out_lex"
    /\ state = "_output_line_state"
    /\ lex.calls < MaxCalls
    /\ LET r == _output_line_state(lex)
       IN  /\ lex' = [r.lex EXCEPT !.calls = @ + 1]
           /\ state' = r.state
           /\ pc' = IF r.state = Raised THEN "out_raised" ELSE pc
    /\ UNCHANGED <<text, res, it, steps, argv, first, out, cindex, csearch>>

\* run() returns self._tokens; with no token parse_search_output returns
\* res, and otherwise it takes the first group of three.  out.it counts the
\* tokens taken; a group that zip_longest filled with None makes
\* _line_parts raise TypeError.
OutReturn ==
    /\ pc = "out_lex"
    /\ state = NoState
    /\ IF lex.tokens = <<>>
       THEN pc' = "out_returned" /\ out' = out
       ELSE IF Len(lex.tokens) < 3
       THEN pc' = "out_typeerror" /\ out' = out
       ELSE LET p == _line_parts(lex.tokens, 0)
            IN  /\ pc' = "out_group"
                /\ out' = [out EXCEPT !.cur_filename = p.filename,
                                      !.cur_matches = <<<<p.linenum, p.line>>>>,
                                      !.it = 3]
    /\ UNCHANGED <<text, lex, state, res, it, steps, argv, first, cindex, csearch>>

\* One iteration of the loop of parse_search_output, or its end: the last
\* group is appended and res returned.
OutGroupLoop ==
    /\ pc = "out_group"
    /\ IF out.it >= Len(lex.tokens)
       THEN IF FileResults_assert(out.cur_filename, out.cur_matches)
            THEN /\ pc' = "out_returned"
                 /\ out' = [out EXCEPT
                        !.res = Append(@, FileResults(out.cur_filename,
                                                      out.cur_matches))]
            ELSE pc' = "out_assert" /\ out' = out
       ELSE IF Len(lex.tokens) < out.it + 3
       THEN pc' = "out_typeerror" /\ out' = out
       ELSE LET p == _line_parts(lex.tokens, out.it)
            IN  IF SameFile(out.cur_filename, p.filename)
                THEN /\ pc' = pc
                     /\ out' = [out EXCEPT
                            !.cur_matches = Append(@, <<p.linenum, p.line>>),
                            !.it = @ + 3]
                ELSE IF FileResults_assert(out.cur_filename, out.cur_matches)
                THEN /\ pc' = pc
                     /\ out' = [out EXCEPT
                            !.res = Append(@, FileResults(out.cur_filename,
                                                          out.cur_matches)),
                            !.cur_filename = p.filename,
                            !.cur_matches = NewMatches(p.linenum, p.line),
                            !.it = @ + 3]
                ELSE pc' = "out_assert" /\ out' = out
    /\ UNCHANGED <<text, lex, state, res, it, steps, argv, first, cindex, csearch>>

\* str(f) for every f of the result, as the results view asks for it.
Render ==
    /\ pc = "out_returned"
    /\ LET shown == [k \in 1..Len(out.res) |-> FileResults_str(out.res[k])]
       IN  /\ out' = [out EXCEPT !.shown = shown]
           /\ pc' = IF \E k \in 1..Len(shown) : shown[k].raised
                    THEN "render_raised"
                    ELSE "rendered"
    /\ UNCHANGED <<text, lex, state, res, it, steps, argv, first, cindex, csearch>>

NextOutput ==
    \/ OutRun
    \/ OutStartState
    \/ OutFilenameState
    \/ OutLineState
    \/ OutReturn
    \/ OutGroupLoop
    \/ Render

SpecOutput == InitOutput /\ [][NextOutput]_vars

-----------------------------------------------------------------------------
(* What the properties of the result parser read off a state. *)

\* parse_search_output has returned its list.
OutDone == pc \in {"out_returned", "rendered", "render_raised"}

\* The lexer has finished and the tokens are being grouped, or have been.
OutLexed == pc = "out_group" \/ OutDone

\* The number of records the lexer read.
NumRecords == Len(lex.tokens) \div 3

\* Record j as the lexer cut it out of the text, its number still a string.
RecordText(j) ==
    lex.tokens[3 * j - 2].value \o <<":">> \o lex.tokens[3 * j - 1].value
        \o <<":">> \o lex.tokens[3 * j].value

\* The (filename, line number, line) of every match of every group, in
\* order.
RECURSIVE Flatten(_)
Flatten(groups) ==
    IF groups = <<>> THEN <<>>
    ELSE [k \in 1..Len(groups[1].matches) |->
              <<groups[1].filename, groups[1].matches[k][1],
                groups[1].matches[k][2]>>]
         \o Flatten(Tail(groups))

E_docstring ==
    << [filename |-> <<"a",".","t","x","t">>,
        matches |-> << <<1, <<"T","o","o"," ","m","a","n","y"," ","c","o","o","k","s">>>>,
                       <<2, <<"T","O","O"," ","M","A","N","Y"," ","c","o","o","k","s">>>> >>],
       [filename |-> <<"b",".","t","x","t">>,
        matches |-> << <<34, <<"H","o","w"," ","t","o"," ","c","o","o","k">>>> >>] >>

\* C16: the records the lexer read are the text cut at its newlines; the
\* groups returned, flattened, are those records in order; neighbouring
\* groups have different filenames; the empty text gives the empty list and
\* no error.
C16_GroupsAreMaximalRuns ==
    /\ OutLexed =>
          LET joined == JoinLines([j \in 1..NumRecords |-> RecordText(j)])
          IN  /\ Len(lex.tokens) = 3 * NumRecords
              /\ text \in {joined, joined \o <<"\n">>}
    /\ OutDone =>
          /\ Flatten(out.res) =
                [j \in 1..NumRecords |->
                    <<lex.tokens[3 * j - 2].value,
                      int(lex.tokens[3 * j - 1].value),
                      lex.tokens[3 * j].value>>]
          /\ \A k \in 1..(Len(out.res) - 1) :
                out.res[k].filename # out.res[k + 1].filename
          /\ text = T_docstring => out.res = E_docstring
    /\ text = <<>> =>
          /\ pc \in {"out_call", "out_lex", "out_returned", "rendered"}
          /\ out.res = <<>>

\* C16, the case: two records of one file, then a record of another.
C16_Witness ==
    /\ OutDone
    /\ NumRecords = 3
    /\ Len(out.res) = 2
    /\ Len(out.res[1].matches) = 2

\* The first position at or after i of a character in chars, Len(text)
\* when there is none.
RECURSIVE IndexIn(_, _)
IndexIn(chars, i) ==
    IF i >= Len(text) THEN Len(text)
    ELSE IF text[i + 1] \in chars THEN i
    ELSE IndexIn(chars, i + 1)

\* The first position at or after i of a character that is no digit.
RECURSIVE DigitsEnd(_)
DigitsEnd(i) ==
    IF i >= Len(text) THEN Len(text)
    ELSE IF text[i + 1] \notin DigitChars THEN i
    ELSE DigitsEnd(i + 1)

\* The result format, read from the text alone: some record from position
\* i on has an empty filename, no colon after the filename, no digit where
\* the number should be, no colon after the number, or no content.
RECURSIVE Malformed(_)
Malformed(i) ==
    IF i >= Len(text) THEN FALSE
    ELSE LET colon == IndexIn({":"}, i)
             d == DigitsEnd(colon + 1)
             nl == IndexIn({"\n"}, d + 1)
         IN  \/ colon = i
             \/ colon = Len(text)
             \/ d = colon + 1
             \/ d >= Len(text)
             \/ text[d + 1] # ":"
             \/ nl = d + 1
             \/ Malformed(nl + 1)

\* C17: parse_search_output raises the lexer's error exactly on the texts
\* that have a malformed record, whatever came before it, and then no
\* group has been made; a.txt1:line is such a text.
C17_MalformedAborts ==
    /\ (pc = "out_raised") =>
          /\ Malformed(0)
          /\ out.res = <<>>
          /\ out.cur_matches = <<>>
          /\ out.shown = None
    /\ (state = NoState /\ pc # "out_call") => ~Malformed(0)
    /\ OutLexed => ~Malformed(0)
    /\ text = T_missing_colon => pc \in {"out_call", "out_lex", "out_raised"}

\* C17, the case: a well-formed record was read, then a malformed one.
C17_Witness ==
    /\ pc = "out_raised"
    /\ Len(lex.tokens) >= 3
    /\ Malformed(0)
    /\ out.res = <<>>

\* C18: every group made has a filename and a match, as has the group
\* being collected; the assertions of FileResults.__init__ hold whenever it
\* is called.
C18_GroupsNonEmpty ==
    /\ \A k \in 1..Len(out.res) :
          /\ out.res[k].filename # <<>>
          /\ out.res[k].matches # <<>>
    /\ (pc = "out_group") =>
          (out.cur_filename # <<>> /\ out.cur_matches # <<>>)
    /\ pc \notin {"out_assert", "out_typeerror"}

\* C18, the case: three groups were made, one per record.
C18_Witness ==
    /\ OutDone
    /\ Len(out.res) = 3
    /\ \A k \in 1..3 : Len(out.res[k].matches) = 1

\* C19: every line number of every group is at least 1.
C19_PositiveLineNumbers ==
    \A k \in 1..Len(out.res) :
        \A j \in 1..Len(out.res[k].matches) : out.res[k].matches[j][1] >= 1

\* A gap marker for a line number of d digits: d dots, after the spaces
\* that bring the row to five characters.
IsMarker(row, d) ==
    /\ Len(row) = (IF d >= 5 THEN d ELSE 5)
    /\ \A i \in 1..Len(row) :
          row[i] = (IF i > Len(row) - d THEN "." ELSE " ")

\* The rows of the matches from k on match those of res_matches from
\* index r on: a marker comes before the row of match k exactly when
\* k > 1 and its number is not the number before plus 1.
RECURSIVE RowsAgree(_, _, _, _)
RowsAgree(rows, r, matches, k) ==
    IF k > Len(matches) THEN r = Len(rows) + 1
    ELSE LET gap == k > 1 /\ matches[k][1] # matches[k - 1][1] + 1
             at == IF gap THEN r + 1 ELSE r
         IN  /\ at <= Len(rows)
             /\ gap => IsMarker(rows[r], Len(str(matches[k - 1][1])))
             /\ rows[at] = line_tmpl(matches[k][1], matches[k][2])
             /\ RowsAgree(rows, at + 1, matches, k + 1)

\* C20: rendering never raises, and the rows of a rendered group are the
\* rows of its matches in order with a gap marker exactly between
\* neighbours that are not contiguous, as many dots wide as the earlier
\* number has digits.
C20_GapRows ==
    /\ pc # "render_raised"
    /\ (pc = "rendered") =>
          \A k \in 1..Len(out.res) :
              RowsAgree(out.shown[k].rows, 1, out.res[k].matches, 1)

-----------------------------------------------------------------------------
(* The lexer alone, in both modes: _Lexer.run from its call to its return, *)
(* on the shorter texts.                                                   *)

\* Queries of fewer characters or words than the bounds allow, and the
\* queries of the tests.
ShortQueryTexts ==
    UNION {[1..n -> Alphabet] : n \in 0..(MaxLen - 1)}
    \cup {JoinWords(ws) :
            ws \in UNION {[1..n -> Words] : n \in 0..(MaxWords - 1)}}
    \cup TestTexts

\* Result texts of fewer characters or lines than the bounds allow, and the
\* two examples.
ShortOutputTexts ==
    UNION {[1..n -> OutAlphabet] : n \in 0..(MaxOutLen - 1)}
    \cup {JoinLines(ls) :
            ls \in UNION {[1..n -> RecordLines \cup BadLines] :
                              n \in 0..(MaxLines - 1)}}
    \cup {T_docstring, T_missing_colon}

\* Nothing has been called yet.
InitLexer ==
    /\ text = <<>>
    /\ lex = NewLexer
    /\ state = NoState
    /\ pc = "idle"
    /\ res = Search
    /\ it = 0
    /\ steps = <<>>
    /\ argv = None
    /\ first = <<>>
    /\ out = NoOutput
    /\ cindex = NoCommand
    /\ csearch = NoCommand

\* parse_query(text) is called.
CallParseQuery ==
    /\ pc = "idle"
    /\ text' \in ShortQueryTexts
    /\ pc' = "call"
    /\ UNCHANGED <<lex, state, res, it, steps, argv, first, out, cindex, csearch>>

\* parse_search_output(text) is called.
CallParseSearchOutput ==
    /\ pc = "idle"
    /\ text' \in ShortOutputTexts
    /\ pc' = "out_call"
    /\ UNCHANGED <<lex, state, res, it, steps, argv, first, out, cindex, csearch>>

NextLexer ==
    \/ CallParseQuery
    \/ Run
    \/ RunTextState
    \/ RunQuoteState
    \/ RunReturn
    \/ CallParseSearchOutput
    \/ OutRun
    \/ OutStartState
    \/ OutFilenameState
    \/ OutLineState
    \/ OutReturn

\* A step of run() is possible: its loop has not ended and the calls are
\* still being followed.  Every such step changes pc or lex.calls, so this
\* is ENABLED <<NextLexer>>_vars after the call.
Running ==
    \/ pc \in {"call", "out_call"}
    \/ pc \in {"lex", "out_lex"} /\ (state = NoState \/ lex.calls < MaxCalls)

\* run() is a loop in one thread: while it can take a step it takes one.
\* This is weak fairness of the steps of run(), with the enabling condition
\* written as the state predicate Running.
FairRun == []<>(~Running) \/ []<><<NextLexer>>_vars

SpecLexer == InitLexer /\ [][NextLexer]_vars /\ FairRun

\* run() has returned its tokens, or an error has left it.
RunDone ==
    pc \in {"parse", "out_returned", "out_group", "out_typeerror", "out_raised"}

\* C21: in both modes, once parse_query or parse_search_output is called
\* the loop of run() comes to an end, with the tokens returned or a lexer
\* error raised, whatever the text.
C21_RunTerminates ==
    /\ [](lex.calls <= 2 * Len(text) + 1)
    /\ (pc \in {"call", "out_call"}) ~> RunDone

\* C21, the case: run() returned on a phrase with no closing quote that
\* ends in a backslash.
C21_Witness ==
    /\ pc = "parse"
    /\ text = <<"\"", "a", "\\">>
    /\ Len(lex.tokens) = 1

\* C22: no backup() follows a backup() with no next() between them, and
\* the cursor stays between the start of the pending token and the end of
\* the text.
C22_BackupUndoesOneNext ==
    /\ lex.misuse = {}
    /\ lex.start <= lex.pos
    /\ lex.pos <= Len(text)
    /\ lex.width \in {0, 1}

\* C22, the case: in the middle of a text, after a token, the last cursor
\* move was a backup().
C22_Witness ==
    /\ pc \in {"lex", "out_lex"}
    /\ lex.undone
    /\ lex.tokens # <<>>
    /\ 0 < lex.pos
    /\ lex.pos < Len(text)

-----------------------------------------------------------------------------
(* The same call made a second time. *)

\* parse_query / args(), or parse_search_output / str(), have come to their
\* end, by a return or by an exception.
CallDone ==
    pc \in {"raised", "args_raised", "args_returned",
            "out_raised", "out_assert", "out_typeerror",
            "render_raised", "rendered"}

\* The call that has ended is made again on the same text, and run() is
\* about to be called on the same _Lexer.  `first` keeps what the first
\* call gave.
Again ==
    /\ CallDone
    /\ first = <<>>
    /\ first' = <<[pc |-> pc, tokens |-> lex.tokens, res |-> res,
                   argv |-> argv, out |-> out]>>
    /\ pc' = IF pc \in {"raised", "args_raised", "args_returned"}
             THEN "call" ELSE "out_call"
    /\ out' = NoOutput
    /\ argv' = None
    /\ steps' = <<>>
    /\ it' = 0
    /\ UNCHANGED <<text, lex, state, res, cindex, csearch>>

NextAgain ==
    \/ CallParseQuery
    \/ CallParseSearchOutput
    \/ Next
    \/ NextOutput
    \/ Again

SpecAgain == InitLexer /\ [][NextAgain]_vars

\* C23: in the second call on a text, run() on the lexer used before
\* starts from position 0 with no token and returns the tokens of the first
\* run, and the call ends as the first did with equal values: the same
\* Search and arguments, the same groups and rendering, or the same
\* exception.
C23_SameTextSameResult ==
    Second =>
        /\ (pc \in {"lex", "out_lex"} /\ lex.calls = 0) =>
              /\ lex.pos = 0 /\ lex.start = 0 /\ lex.tokens = <<>>
        /\ (pc \in {"parse", "out_group"} \/ CallDone) =>
              lex.tokens = first[1].tokens
        /\ CallDone =>
              /\ pc = first[1].pc
              /\ res = first[1].res
              /\ argv = first[1].argv
              /\ out = first[1].out

\* C23, the case: a second parse of a result text of three records gave
\* the two groups again.
C23_Witness ==
    /\ Second
    /\ pc = "rendered"
    /\ Len(lex.tokens) = 9
    /\ Len(out.res) = 2
    /\ out = first[1].out

-----------------------------------------------------------------------------
(* CindexCommand (src/cindex.py): the window command, the thread it starts  *)
(* and the callbacks the thread posts to the main thread.                  *)

\* Most lines the cindex process prints before it ends.
MaxFiles == 2

\* The calls of run() that find the command idle, over one window.
MaxRuns == 2

\* The variables of the parser, which the window commands leave alone
\* while no parse is under way.
parser_vars == <<text, lex, state, pc, res, it, steps, argv, first, out>>

\* No exception: the default of the `err` parameters.
NoErr == "None"

\* Project data as window.project_data() gives them: a project with folders
\* only, one whose code_search settings name no index, and the project of
\* the tests, which names its index file.
P_folders == [folders |-> <<"src">>]

P_no_index == [code_search |-> [other |-> "x"], folders |-> <<"src">>]

P_indexed ==
    [code_search |-> [csearchindex |-> <<"~", "csearchindex">>],
     folders |-> <<"src">>]

ProjectDatas == {P_folders, P_no_index, P_indexed}

\* window.project_data() of a window with no project: None, written as a
\* record so that it can stand where the dicts stand.
P_none == [None |-> TRUE]

\* `'code_search' in project_data` raises TypeError on None.
IsNone(project_data) == "None" \in DOMAIN project_data

\* cindex.py:61-62
HasIndex(project_data) ==
    /\ "code_search" \in DOMAIN project_data
    /\ "csearchindex" \in DOMAIN project_data.code_search

\* No thread made yet.  Of the cindex process the thread starts: the lines
\* it has still to print, whether its output is open, closed or the process
\* has exited, and its exit status.  Kept for the claims: the lines the
\* process prints in all, the lines read, the sum of the counts reported,
\* the calls of on_finished and the error of the last.
NoThread ==
    [pc |-> "none", index_filename |-> None, paths_to_index |-> <<>>,
     count |-> 0, left |-> 0, retcode |-> 0, proc |-> "none",
     lines |-> 0, read |-> 0, reported |-> 0, finished |-> 0, err |-> NoErr]

\* The status text of the active view.
NoStatus == <<>>

\* CindexCommand.__init__, with the project of the window, whether the
\* index file is on disk, and the main thread's queue of timeouts.
NewCindex(project_data, isfile) ==
    [_is_running |-> FALSE, _total_indexed |-> 0, status |-> NoStatus,
     error_message |-> NoErr, raised |-> NoErr, thread |-> NoThread,
     timeouts |-> <<>>, project_data |-> project_data, isfile |-> isfile,
     runs |-> 0]

InitCindex ==
    /\ text = <<>>
    /\ lex = NewLexer
    /\ state = NoState
    /\ pc = "idle"
    /\ res = Search
    /\ it = 0
    /\ steps = <<>>
    /\ argv = None
    /\ first = <<>>
    /\ out = NoOutput
    /\ cindex \in {NewCindex(p, f) : p \in ProjectDatas, f \in BOOLEAN}
    /\ csearch = NoCommand

\* sublime.set_timeout(fn, 0): the call joins the main thread's queue.
set_timeout(c, fn, arg) ==
    [c EXCEPT !.timeouts = Append(@, [fn |-> fn, arg |-> arg])]

\* CindexCommand.run, cindex.py:37-77.  A call while running returns at
\* once.  Otherwise the flag and the status are set; with a csearchindex in
\* the project the thread is made and started; with none, index_project
\* shows the message and returns, and without index_project the thread's
\* __init__ raises on os.path.abspath(None) (cindex.py:119).
CindexRun(index_project) ==
    /\ ~cindex._is_running
    /\ cindex.runs < MaxRuns
    /\ LET c == [cindex EXCEPT !._is_running = TRUE,
                               !.status = <<"cindex (starting)">>,
                               !._total_indexed = 0,
                               !.raised = NoErr,
                               !.error_message = NoErr,
                               !.runs = @ + 1]
       IN  cindex' =
             IF HasIndex(c.project_data)
             THEN [c EXCEPT !.thread =
                     [NoThread EXCEPT
                        !.pc = "run",
                        !.index_filename =
                            c.project_data.code_search.csearchindex,
                        !.paths_to_index = IF index_project
                                           THEN c.project_data.folders
                                           ELSE <<>>]]
             ELSE IF index_project
             THEN [c EXCEPT !.error_message =
                        "Cannot index project. Missing csearchindex file"]
             ELSE [c EXCEPT !.raised = "TypeError"]
    /\ UNCHANGED <<parser_vars, csearch>>

\* CindexCommand.on_files_processed, cindex.py:93-95
on_files_processed(c, count) ==
    set_timeout([c EXCEPT !.thread.reported = @ + count],
                "_increment_total_indexed", count)

\* CindexCommand.on_finished, cindex.py:97-99, the last call of the thread.
cindex_on_finished(c, err) ==
    set_timeout([c EXCEPT !.thread.pc = "done",
                          !.thread.finished = @ + 1,
                          !.thread.err = err],
                "_finish", err)

\* _CindexListThread.run up to the loop of _start_indexing:
\* _check_index_file (cindex.py:132-137) raises when the index file is
\* needed and missing, Popen may fail, and otherwise the process runs and
\* will print `n` lines and end with status `rc`.
CindexThreadStart ==
    /\ cindex.thread.pc = "run"
    /\ LET t == cindex.thread
       IN  IF t.paths_to_index = <<>> /\ ~cindex.isfile
           THEN cindex' = cindex_on_finished(cindex,
                                             "The index file does not exist")
           ELSE \/ cindex' = cindex_on_finished(cindex, "OSError")
                \/ \E n \in 0..MaxFiles, rc \in {0, 1} :
                      cindex' = [cindex EXCEPT !.thread.pc = "reading",
                                               !.thread.proc = "open",
                                               !.thread.lines = n,
                                               !.thread.left = n,
                                               !.thread.retcode = rc]
    /\ UNCHANGED <<parser_vars, csearch>>

\* A line read that is reported and counted again with the next.
CindexThreadLine_keep_count ==
    /\ cindex.thread.pc = "reading"
    /\ cindex.thread.left > 0
    /\ \E tick \in BOOLEAN :
          LET c == [cindex EXCEPT !.thread.left = @ - 1,
                                  !.thread.read = @ + 1,
                                  !.thread.count = @ + 1]
          IN  cindex' = IF tick THEN on_files_processed(c, c.thread.count)
                        ELSE c
    /\ UNCHANGED <<parser_vars, csearch>>

\* One line read in _start_indexing (cindex.py:161-170); `tick` says
\* whether a tenth of a second has passed since the last report.
CindexThreadLine ==
    /\ cindex.thread.pc = "reading"
    /\ cindex.thread.left > 0
    /\ \E tick \in BOOLEAN :
          LET c == [cindex EXCEPT !.thread.left = @ - 1,
                                  !.thread.read = @ + 1,
                                  !.thread.count = @ + 1]
          IN  cindex' =
                IF tick
                THEN on_files_processed([c EXCEPT !.thread.count = 0],
                                        c.thread.count)
                ELSE c
    /\ UNCHANGED <<parser_vars, csearch>>

\* The cindex process, its lines printed, closes its output: readline
\* returns b'' from here on.
CindexProcClose ==
    /\ cindex.thread.proc = "open"
    /\ cindex.thread.left = 0
    /\ cindex' = [cindex EXCEPT !.thread.proc = "closed"]
    /\ UNCHANGED <<parser_vars, csearch>>

\* The cindex process, its output closed, exits: its status is there for
\* poll() from here on.  A run over the project's folders that succeeds has
\* written the index file.
CindexProcExit ==
    /\ cindex.thread.proc = "closed"
    /\ cindex' = [cindex EXCEPT
                    !.thread.proc = "exited",
                    !.isfile = @ \/ (cindex.thread.retcode = 0
                                     /\ cindex.thread.paths_to_index # <<>>)]
    /\ UNCHANGED <<parser_vars, csearch>>

CindexProc ==
    \/ CindexProcClose
    \/ CindexProcExit

\* proc.poll(), cindex.py:173: the exit status of a process that has
\* exited and None, here 0 as `if retcode:` takes both alike, of one that
\* has not.
poll(t) == IF t.proc = "exited" THEN t.retcode ELSE 0

\* The end of the output (cindex.py:171-176) and of run (cindex.py:128-130):
\* the last count is reported, then the end, with the error of a non-zero
\* exit status.
CindexThreadEnd ==
    /\ cindex.thread.pc = "reading"
    /\ cindex.thread.left = 0
    /\ cindex.thread.proc \in {"closed", "exited"}
    /\ LET t == cindex.thread
           c == on_files_processed([cindex EXCEPT !.thread.count = 0],
                                   t.count)
       IN  cindex' =
             IF poll(t) # 0
             THEN cindex_on_finished(c, "CalledProcessError")
             ELSE cindex_on_finished(c, NoErr)
    /\ UNCHANGED <<parser_vars, csearch>>

CindexThread ==
    \/ CindexThreadStart
    \/ CindexThreadLine
    \/ CindexThreadEnd

\* CindexCommand._increment_total_indexed, cindex.py:79-84
_increment_total_indexed(c, count) ==
    IF ~c._is_running THEN c
    ELSE [c EXCEPT !._total_indexed = @ + count,
                   !.status = <<"cindex (", c._total_indexed + count, " files)">>]

\* CindexCommand._finish, cindex.py:86-91
cindex_finish(c, err) ==
    [c EXCEPT !._is_running = FALSE,
              !.status = NoStatus,
              !.error_message = IF err # NoErr THEN err ELSE @]

\* The main thread runs the oldest timeout.
CindexTimeout ==
    /\ cindex.timeouts # <<>>
    /\ LET call == Head(cindex.timeouts)
           c == [cindex EXCEPT !.timeouts = Tail(@)]
       IN  cindex' = IF call.fn = "_finish"
                     THEN cindex_finish(c, call.arg)
                     ELSE _increment_total_indexed(c, call.arg)
    /\ UNCHANGED <<parser_vars, csearch>>

NextCindex ==
    \/ \E index_project \in BOOLEAN : CindexRun(index_project)
    \/ CindexThreadStart
    \/ CindexThreadLine
    \/ CindexThreadEnd
    \/ CindexProcClose
    \/ CindexProcExit
    \/ CindexTimeout

\* The thread is scheduled and the cindex process ends; the main thread
\* runs its timeouts.  Nothing obliges the user to call run().
SpecCindex ==
    /\ InitCindex
    /\ [][NextCindex]_vars
    /\ WF_vars(CindexThread)
    /\ WF_vars(CindexProc)
    /\ WF_vars(CindexTimeout)

\* C24: whenever the running flag of CindexCommand is set, the command
\* later finishes: the flag is false again and the status text erased.
C24_RunEventuallyFinishes ==
    cindex._is_running ~> (~cindex._is_running /\ cindex.status = NoStatus)

\* A run whose thread was started, the only runs of which C24's
\* conclusion holds.
C24_ThreadRunsFinish ==
    (cindex._is_running /\ cindex.thread.pc = "run")
        ~> (~cindex._is_running /\ cindex.status = NoStatus)

-----------------------------------------------------------------------------
(* Project settings (src/settings.py).  A path is the sequence of its      *)
(* components, "/" first when it is absolute and "~" first when it starts  *)
(* at the user's home.                                                     *)

\* os.path.expanduser
expanduser(path) ==
    IF path # <<>> /\ path[1] = "~" THEN <<"/", "home">> \o Tail(path)
    ELSE path

\* os.path.isabs
isabs(path) == path # <<>> /\ path[1] = "/"

\* os.path.abspath, from the working directory /cwd
abspath(path) == IF isabs(path) THEN path ELSE <<"/", "cwd">> \o path

\* settings.fix_path
fix_path(path, project_dir) ==
    LET p == expanduser(path)
        q == IF ~isabs(p) /\ project_dir # None THEN project_dir \o p ELSE p
    IN  abspath(q)

\* settings.Settings
Settings(csearch_path, cindex_path, index_filename, paths_to_index) ==
    [csearch_path |-> csearch_path, cindex_path |-> cindex_path,
     index_filename |-> index_filename, paths_to_index |-> paths_to_index]

\* settings.get_project_settings: whether it raised, and the Settings it
\* returned.  No statement of it looks at the file system; the test at
\* settings.py:79 raises TypeError on the project data None.
get_project_settings(project_data, project_dir, index_project_folders) ==
    LET index_filename ==
            IF HasIndex(project_data)
            THEN fix_path(project_data.code_search.csearchindex, project_dir)
            ELSE None
        paths_to_index ==
            IF index_project_folders
            THEN [k \in 1..Len(project_data.folders) |->
                    fix_path(<<project_data.folders[k]>>, project_dir)]
            ELSE <<>>
    IN  IF IsNone(project_data)
        THEN [raised |-> TRUE, value |-> Settings("", "", None, <<>>)]
        ELSE [raised |-> FALSE,
              value |-> Settings("csearch", "cindex", index_filename,
                                 paths_to_index)]

\* The index file of P_indexed, as an absolute path.
IndexPath == <<"/", "home", "csearchindex">>

-----------------------------------------------------------------------------
(* CsearchCommand (src/csearch.py): the window command, its input panel,   *)
(* the thread that runs csearch and the callback it posts.                 *)

\* The searches one window is followed for.
MaxSearches == 2

\* A query of one flag and no term.
T_file_only == <<"f","i","l","e",":","a">>

\* What the user types in the input panel.
SearchTexts == {<<>>, T_simple, T_with_file, T_file_only}

\* What csearch prints: result texts three characters or one line shorter
\* than the bounds of the result parser allow, and its two examples.
StdoutTexts ==
    UNION {[1..n -> OutAlphabet] : n \in 0..(MaxOutLen - 3)}
    \cup {JoinLines(ls) :
            ls \in UNION {[1..n -> RecordLines \cup BadLines] :
                              n \in 0..(MaxLines - 1)}}
    \cup {T_docstring, T_missing_colon}

\* No Settings asked for yet.
NoSettings == Settings("", "", None, <<>>)

\* No call of _finish made, or posted, yet in this search.
NoFinish == [called |-> FALSE, output |-> None, err |-> NoErr, parsed |-> FALSE]

\* No csearch process yet in this search.
NoProc == [started |-> FALSE, retcode |-> 0, stderr |-> FALSE]

\* CsearchCommand.__init__, with the project of the window and the files
\* on disk.  `view` is what was written to the results view, `pending` the
\* call of _finish that on_finished posted.  History: `workers` counts the
\* threads started and not yet at their on_finished, and since the last
\* run() that opened the panel `posted` counts the calls of on_finished,
\* `finished` those of _finish, and `ignored` says that a run() returned at
\* csearch.py:43.
NewCsearch(project_data, files) ==
    [_is_running |-> FALSE, _last_search |-> <<>>, stage |-> "idle",
     view |-> <<>>, s |-> NoSettings, s_called |-> FALSE, s_raised |-> FALSE,
     proc |-> NoProc,
     pending |-> NoFinish, finish |-> NoFinish,
     project_data |-> project_data, files |-> files, runs |-> 0,
     workers |-> 0, posted |-> 0, finished |-> 0, ignored |-> FALSE]

InitCsearch ==
    /\ text = <<>>
    /\ lex = NewLexer
    /\ state = NoState
    /\ pc = "idle"
    /\ res = Search
    /\ it = 0
    /\ steps = <<>>
    /\ argv = None
    /\ first = <<>>
    /\ out = NoOutput
    /\ cindex = NoCommand
    /\ csearch \in {NewCsearch(P_folders, {}), NewCsearch(P_indexed, {}),
                    NewCsearch(P_indexed, {IndexPath}), NewCsearch(P_none, {})}

\* A check of the output that finds it empty when it holds line ends only.
NoOutputText_blank(output) ==
    output = None \/ \A k \in 1..Len(output) : output[k] = "\n"

\* `not output` at csearch.py:84: None or the empty string
NoOutputText(output) == output = None \/ output = <<>>

\* The main thread is between two handlers: no search under way, the
\* panel open, the thread at work, or its _finish posted and not yet run.
MainFree ==
    \/ csearch.stage \in {"idle", "panel", "queued"}
    \/ csearch.stage = "on_search"
          /\ pc \in {"returned", "args_raised", "args_returned"}

\* A run() that goes on whatever the flag says.
run_honoured_always(c) == TRUE

\* csearch.py:42-43, run() goes on only when no search is running
run_honoured(c) == ~c._is_running

\* CsearchCommand.run, csearch.py:35-49: the flag is set and the input
\* panel shown.  The locals of the search before are gone.
CsearchRun ==
    /\ MainFree
    /\ run_honoured(csearch)
    /\ csearch.runs < MaxSearches
    /\ csearch' = [csearch EXCEPT !._is_running = TRUE, !.stage = "panel",
                                  !.runs = @ + 1, !.proc = NoProc,
                                  !.pending = NoFinish, !.finish = NoFinish,
                                  !.posted = 0, !.finished = 0,
                                  !.ignored = FALSE]
    /\ text' = <<>>
    /\ lex' = NewLexer
    /\ state' = NoState
    /\ pc' = "idle"
    /\ res' = Search
    /\ it' = 0
    /\ steps' = <<>>
    /\ argv' = None
    /\ out' = NoOutput
    /\ UNCHANGED <<first, cindex>>

\* A _finish that leaves the running flag as it is.
csearch_finish_keep_flag(c, output, err) ==
    [c EXCEPT !.stage = "idle",
              !.finished = @ + 1,
              !.finish = [called |-> TRUE, output |-> output, err |-> err,
                          parsed |-> FALSE],
              !.view = Append(@, [kind |-> "error", err |-> err])]

\* _finish up to the parsing of the output, csearch.py:78-86.
csearch_finish(c, output, err) ==
    LET d == [c EXCEPT !._is_running = FALSE,
                       !.finished = @ + 1,
                       !.ignored = FALSE,
                       !.finish = [called |-> TRUE, output |-> output,
                                   err |-> err, parsed |-> FALSE]]
    IN  IF err # NoErr
        THEN [d EXCEPT !.stage = "idle",
                       !.view = Append(@, [kind |-> "error", err |-> err])]
        ELSE IF NoOutputText(output)
        THEN [d EXCEPT !.stage = "idle",
                       !.view = Append(@, [kind |-> "No matches found",
                                           err |-> NoErr])]
        ELSE [d EXCEPT !.stage = "finish", !.finish.parsed = TRUE]

\* The input panel is cancelled: on_cancel is _finish(None).
CsearchCancel ==
    /\ csearch.stage = "panel"
    /\ csearch' = csearch_finish(csearch, None, NoErr)
    /\ UNCHANGED <<parser_vars, cindex>>

\* _on_search, csearch.py:66-76.  When get_project_settings raises,
\* _finish(None, err) is called and no thread is made.  Otherwise the
\* handler goes on, without leaving the main thread, to parse_query, whose
\* steps are those of Next, and starts the thread once it has returned; the
\* thread is counted from here.
CsearchOnSearch(result) ==
    /\ csearch.stage = "panel"
    /\ LET s == get_project_settings(csearch.project_data, None, FALSE)
           c == [csearch EXCEPT
                    !._last_search = result,
                    !.view = <<[kind |-> "Searching for", err |-> NoErr]>>,
                    !.s = s.value,
                    !.s_called = TRUE,
                    !.s_raised = s.raised]
       IN  IF s.raised
           THEN /\ csearch' = csearch_finish(c, None, "TypeError")
                /\ UNCHANGED <<text, pc>>
           ELSE /\ csearch' = [c EXCEPT !.stage = "on_search",
                                        !.workers = @ + 1]
                /\ text' = result
                /\ pc' = "call"
    /\ UNCHANGED <<lex, state, res, it, steps, argv, first, out, cindex>>

\* What on_finished(output, err) leaves of the thread: its call of _finish
\* is posted and the thread is over.
on_finished(c, output, err) ==
    [c EXCEPT !.stage = "queued",
              !.workers = @ - 1,
              !.posted = @ + 1,
              !.pending = [called |-> TRUE, output |-> output, err |-> err,
                           parsed |-> FALSE]]

\* _CsearchThread.run after self._search.args(), csearch.py:144-172, with
\* the texts the process may print: the error of args() is passed on;
\* otherwise Popen may fail, or the process ends with a status, some or no
\* text on stderr and its output.  The listener posts the call of _finish.
CsearchThreadDoSearchOn(outputs) ==
    /\ csearch.stage = "on_search"
    /\ pc \in {"args_raised", "args_returned"}
    /\ IF pc = "args_raised"
       THEN csearch' = on_finished(csearch, None, "No query to run")
       ELSE \/ csearch' = on_finished(csearch, None, "OSError")
            \/ \E retcode \in {0, 1}, stderr \in BOOLEAN, output \in outputs :
                  LET c == [csearch EXCEPT
                               !.proc = [started |-> TRUE, retcode |-> retcode,
                                         stderr |-> stderr]]
                  IN  csearch' =
                        IF retcode # 0 /\ stderr
                        THEN on_finished(c, None, "CalledProcessError")
                        ELSE on_finished(c, output, NoErr)
    /\ UNCHANGED <<parser_vars, cindex>>

CsearchThreadDoSearch == CsearchThreadDoSearchOn(StdoutTexts)

\* The main thread runs the posted _finish(output, err), csearch.py:78-90,
\* up to the call of parse_search_output, whose steps are those of
\* NextOutput.  parse_query on the last search is the parse of _on_search
\* again.
CsearchFinish ==
    /\ csearch.stage = "queued"
    /\ LET c == csearch_finish(csearch, csearch.pending.output,
                               csearch.pending.err)
       IN  /\ csearch' = c
           /\ IF c.stage = "finish"
              THEN /\ text' = csearch.pending.output
                   /\ pc' = "out_call"
                   /\ out' = NoOutput
              ELSE UNCHANGED <<text, pc, out>>
    /\ UNCHANGED <<lex, state, res, it, steps, argv, first, cindex>>

RECURSIVE num_matches(_)
\* csearch.py:93-94, the sum of len(r.matches); reduce() has no initial
\* value and raises on no group at all.
num_matches(matches) ==
    IF Len(matches) = 1 THEN Len(matches[1].matches)
    ELSE Len(matches[1].matches) + num_matches(Tail(matches))

\* The rest of _finish, csearch.py:90-109: the groups rendered and counted
\* and written to the view, or the exception of any of it reported.
CsearchFinishEnd ==
    /\ csearch.stage = "finish"
    /\ pc \in {"rendered", "render_raised", "out_raised", "out_typeerror",
               "out_assert"}
    /\ csearch' = [csearch EXCEPT
            !.stage = "idle",
            !.view = Append(@,
                IF pc = "rendered" /\ out.res # <<>>
                THEN [kind |-> "results", err |-> NoErr,
                      num_matches |-> num_matches(out.res),
                      num_files |-> Len(out.res)]
                ELSE [kind |-> "error",
                      err |-> IF pc = "rendered" THEN "TypeError" ELSE pc])]
    /\ UNCHANGED <<parser_vars, cindex>>

NextCsearch ==
    \/ CsearchRun
    \/ CsearchCancel
    \/ \E result \in SearchTexts : CsearchOnSearch(result)
    \/ Next
    \/ CsearchThreadDoSearch
    \/ CsearchFinish
    \/ NextOutput
    \/ CsearchFinishEnd

SpecCsearch == InitCsearch /\ [][NextCsearch]_vars

-----------------------------------------------------------------------------
(* What the properties of the search command read off a state. *)

\* The thread's call of _finish has run to its end.
WorkerFinished ==
    /\ csearch.stage = "idle"
    /\ csearch.finish.called
    /\ csearch.pending.called

\* What _finish wrote to the view, after the line of _on_search.
Shown == Tail(csearch.view)

\* The csearch process ended with a non-zero status and text on stderr.
ProcFailed == csearch.proc.retcode # 0 /\ csearch.proc.stderr

\* The lexer of parse_search_output was never run in this search.
NothingParsed ==
    ~csearch.finish.parsed /\ pc \in {"args_raised", "args_returned"}

C26_MissingIndexRaises ==
    ( /\ csearch.s_called
      /\ HasIndex(csearch.project_data)
      /\ fix_path(csearch.project_data.code_search.csearchindex, None)
            \notin csearch.files )
        => csearch.s_raised

-----------------------------------------------------------------------------
(* Further properties of the two parsers. *)

\* run() of the result lexer has returned its tokens.
OutRunReturned == (pc = "out_lex" /\ state = NoState) \/ OutLexed

\* C27: the tokens of the result lexer come in the order FileName,
\* LineNumber, Line; when run() returns they are whole triples, so that
\* the grouping never meets a missing token (no TypeError); and every
\* LineNumber token is a non-empty string of decimal digits, which int()
\* converts.
C27_CompleteTriples ==
    /\ \A k \in 1..Len(lex.tokens) :
          /\ lex.tokens[k].type = (k - 1) % 3
          /\ lex.tokens[k].type = LineNumber =>
                /\ lex.tokens[k].value # <<>>
                /\ \A i \in 1..Len(lex.tokens[k].value) :
                      lex.tokens[k].value[i] \in DigitChars
    /\ OutRunReturned => Len(lex.tokens) % 3 = 0
    /\ pc # "out_typeerror"
    /\ OutDone =>
          \A g \in 1..Len(out.res) : \A k \in 1..Len(out.res[g].matches) :
              out.res[g].matches[k][1] \in Nat

\* C27, the case: two records were lexed into six tokens, the second with
\* a number of two digits, and grouped.
C27_Witness ==
    /\ pc = "rendered"
    /\ Len(lex.tokens) = 6
    /\ lex.tokens[5] = [type |-> LineNumber, value |-> <<"1", "0">>]
    /\ Flatten(out.res)[2][2] = 10

\* C28: parse_query raises on no text: the query lexer never signals an
\* error, its tokens are text, quote and flag tokens only, every flag token
\* is `file` or `case` in some case, and so neither "Unsupported flag
\* value" nor "Unsupported token type" is raised and a Search is returned.
C28_ParseQueryTotal ==
    /\ pc # "raised"
    /\ state \in {NoState, "_search_text_state", "_search_quote_state"}
    /\ \A k \in 1..Len(lex.tokens) :
          /\ lex.tokens[k].type \in {"text", "quote", "flag"}
          /\ lex.tokens[k].type = "flag" =>
                lower(lex.tokens[k].value) \in {W_file, W_case}
    /\ pc \in {"returned", "args_raised", "args_returned"} =>
          /\ it = Len(lex.tokens)
          /\ res.case \in BOOLEAN
          /\ Len(res.query) <= Len(lex.tokens)

\* C28, the case: a query with a phrase and a file flag was parsed, its
\* tokens of the three types.
C28_Witness ==
    /\ pc = "returned"
    /\ text = T_with_file
    /\ {lex.tokens[k].type : k \in 1..Len(lex.tokens)}
          = {"text", "quote", "flag"}
    /\ res.file = <<".", "*", "p", "y", "$">>

\* C29: every term of the Search parse_query returns is a non-empty
\* string, and so the pattern args() gives is not empty and has no empty
\* alternative.
C29_TermsNonEmpty ==
    /\ pc \in {"returned", "args_raised", "args_returned"} =>
          \A k \in 1..Len(res.query) : res.query[k] # <<>>
    /\ pc = "args_returned" =>
          /\ argv[Len(argv)] # <<>>
          /\ argv[Len(argv)] = query_re(res)

\* What holds in place of C29: a term is empty only where it was made
\* from the phrase of two double quotes, or from one double quote that ends
\* the text.
C29_EmptyTermsFromQuotes ==
    \A j \in 1..Len(steps) :
        LET st == steps[j]
        IN  (Len(st.after.query) > Len(st.before.query)
                /\ st.after.query[Len(st.after.query)] = <<>>)
            => /\ HeadTok(st).type = "quote"
               /\ HeadTok(st).value = <<"\"", "\"">>

\* C30: no filename of a group parse_search_output returns holds a colon
\* or a newline: a record is one line of the text, and a blank line before
\* it is not taken into its filename.
C30_FilenameOnOneLine ==
    OutDone =>
        \A g \in 1..Len(out.res) :
            \A i \in 1..Len(out.res[g].filename) :
                out.res[g].filename[i] \notin {":", "\n"}

\* What holds in place of C30: no filename holds a colon.
C30_FilenameWithoutColon ==
    \A k \in 1..Len(lex.tokens) :
        lex.tokens[k].type = FileName =>
            \A i \in 1..Len(lex.tokens[k].value) : lex.tokens[k].value[i] # ":"

-----------------------------------------------------------------------------
(* CsearchCommand with run() called at any time the main thread is free,   *)
(* on a few outputs, and with the scheduling that lets a search end.       *)

\* What csearch prints here: nothing, a line that is no record, one
\* record, two records that do not render, and the docstring's example.
FewStdoutTexts ==
    {<<>>, <<"a">>, <<"a", ":", "1", ":", "x">>,
     <<"a", ":", "0", ":", "x", "\n", "a", ":", "2", ":", "x">>, T_docstring}

\* run() while a search is running, csearch.py:42-43: it returns at once.
CsearchRunIgnored ==
    /\ MainFree
    /\ ~run_honoured(csearch)
    /\ ~csearch.ignored
    /\ csearch' = [csearch EXCEPT !.ignored = TRUE]
    /\ UNCHANGED <<parser_vars, cindex>>

\* The user answers the input panel.
CsearchPanel ==
    \/ CsearchCancel
    \/ \E result \in SearchTexts : CsearchOnSearch(result)

NextCsearchRuns ==
    \/ CsearchRun
    \/ CsearchRunIgnored
    \/ CsearchCancel
    \/ \E result \in SearchTexts : CsearchOnSearch(result)
    \/ Next
    \/ CsearchThreadDoSearchOn(FewStdoutTexts)
    \/ CsearchFinish
    \/ NextOutput
    \/ CsearchFinishEnd

\* parse_query, args() or parse_search_output has a step to take.
Parsing ==
    Running \/ pc \in {"parse", "returned", "out_group", "out_returned"}

\* The user answers the panel, a handler or thread that parses goes on
\* parsing, the thread runs csearch to its end, and the main thread runs the
\* posted _finish.  Nothing obliges the user to call run().
SpecCsearchRuns ==
    /\ InitCsearch
    /\ [][NextCsearchRuns]_vars
    /\ WF_vars(CsearchPanel)
    /\ ([]<>(~Parsing) \/ []<><<Next \/ NextOutput>>_vars)
    /\ WF_vars(CsearchThreadDoSearchOn(FewStdoutTexts))
    /\ WF_vars(CsearchFinish)
    /\ WF_vars(CsearchFinishEnd)

\* C31: at most one search thread exists, and only while the running flag
\* is set; the flag is set exactly from the run() that opens the panel to
\* the following _finish, and a run() is ignored only in between.
C31_OneSearchAtATime ==
    /\ csearch.workers \in {0, 1}
    /\ csearch.workers = 1 <=>
          (csearch.stage = "on_search" /\ csearch._is_running)
    /\ csearch._is_running <=>
          csearch.stage \in {"panel", "on_search", "queued"}
    /\ csearch.ignored => csearch._is_running
    /\ csearch.proc.started => csearch.stage \in {"queued", "finish", "idle"}

\* C31, the case: in the second search a run() was ignored while the
\* thread was at work.
C31_Witness ==
    /\ csearch.runs = 2
    /\ csearch.ignored
    /\ csearch.workers = 1
    /\ pc = "args_returned"

\* Between a run() that sets the flag and the next one: on_finished is
\* called at most once, with an output or with an error, and _finish at
\* most once; a search over has had its one _finish, with what on_finished
\* was given.
OneFinish ==
    /\ csearch.posted <= 1
    /\ csearch.finished <= 1
    /\ csearch._is_running => csearch.finished = 0
    /\ (csearch.runs > 0 /\ ~csearch._is_running) => csearch.finished = 1
    /\ csearch.pending.called =>
          /\ csearch.posted = 1
          /\ (csearch.pending.err # NoErr) <=> (csearch.pending.output = None)
    /\ (csearch.pending.called /\ csearch.finished = 1) =>
          /\ csearch.finish.output = csearch.pending.output
          /\ csearch.finish.err = csearch.pending.err

\* The search is over, its one _finish done.
Finished == ~csearch._is_running /\ csearch.finished = 1

\* C32: every run() that sets the running flag is followed by the _finish
\* that resets it, and there is exactly one: on_finished and _finish are
\* each called at most once per run(), on_finished with an output or with
\* an error.
C32_RunLeadsToOneFinish ==
    /\ []OneFinish
    /\ csearch._is_running ~> Finished

\* C32, the case: the second search, of a query with no term, is over
\* with the error of the thread reported.
C32_Witness ==
    /\ csearch.runs = 2
    /\ csearch.stage = "idle"
    /\ csearch.posted = 1
    /\ csearch.finished = 1
    /\ csearch.finish.err = "No query to run"
    /\ ~csearch._is_running


-----------------------------------------------------------------------------
(* The counts and the end of one indexing run (src/cindex.py).             *)

\* The names of the calls waiting in the main thread's queue.
Posted == [i \in DOMAIN cindex.timeouts |-> cindex.timeouts[i].fn]

\* The counts waiting in the main thread's queue, summed.
RECURSIVE SumCounts(_)
SumCounts(q) ==
    IF q = <<>> THEN 0
    ELSE (IF Head(q).fn = "_increment_total_indexed" THEN Head(q).arg ELSE 0)
         + SumCounts(Tail(q))

\* C33: in an indexing run the counts passed to on_files_processed and the
\* lines read since the last report sum to the lines read, and at the end
\* to the lines the process printed; on_finished is called once, as the
\* last call of the thread, so no progress call waits behind a _finish;
\* the counts delivered while the run lasts make the total; and a progress
\* call delivered when the run is over changes nothing.
C33_CountsSumToLinesRead ==
    LET t == cindex.thread
    IN  /\ t.reported + t.count = t.read
        /\ t.read + t.left = t.lines
        /\ t.finished <= 1
        /\ t.finished = 1 <=> t.pc = "done"
        /\ (t.pc = "done" /\ t.proc # "none") =>
              (t.reported = t.lines /\ t.count = 0)
        /\ \A i \in DOMAIN Posted :
              Posted[i] = "_finish" => (i = Len(Posted) /\ t.pc = "done")
        /\ cindex._is_running =>
              cindex._total_indexed + SumCounts(cindex.timeouts) = t.reported
        /\ (~cindex._is_running /\ t.finished = 1) =>
              cindex._total_indexed = t.reported
        /\ ~cindex._is_running =>
              \A n \in 0..MaxFiles : _increment_total_indexed(cindex, n) = cindex

\* C33, the case: of two lines the first was reported by the periodic
\* flush and the second at the end of the output, and on_finished called;
\* the three calls wait for the main thread in this order.
C33_Witness ==
    /\ cindex.thread.lines = 2
    /\ cindex.thread.read = 2
    /\ cindex._is_running
    /\ cindex.timeouts =
          <<[fn |-> "_increment_total_indexed", arg |-> 1],
            [fn |-> "_increment_total_indexed", arg |-> 1],
            [fn |-> "_finish", arg |-> NoErr]>>

\* C34: a thread that has called on_finished for a cindex process that
\* exited with a non-zero status has passed an error.
C34_NonZeroExitReported ==
    LET t == cindex.thread
    IN  (t.finished = 1 /\ t.proc = "exited" /\ t.retcode # 0)
            => t.err # NoErr

=============================================================================
